---- MODULE Spec2Model ----
(***************************************************************************)
(* Model of the issue normalizer, the complexity lexicon, the single-source *)
(* estimation engine and the estimation model builders of pmproject.        *)
(*                                                                          *)
(* Every component is exercised by its own specification: Init draws the    *)
(* component's inputs from bounded sets and the actions apply the           *)
(* component's operations.  The variables of the other components stay at   *)
(* Idle.                                                                    *)
(***************************************************************************)
EXTENDS Integers, Sequences, FiniteSets, TLC

VARIABLES
    component,       \* which component this behaviour exercises
    rawPoints,       \* rounding: the number handed to a Fibonacci rounding site
    roundedPoints,   \* rounding: [site, points] once a site has rounded it
    rawIssue,        \* normalizer: the platform payload, [platform, ...fields]
    unifiedIssue,    \* normalizer: the record normalizeIssue returned
    lexiconText,     \* lexicon: the text handed to analyzeKeywordComplexity
    keywordAnalysis,  \* lexicon: the record analyzeKeywordComplexity returned
    historicalData,  \* engine: the field EstimationEngine.historicalData
    story,           \* engine: the arguments of the last call of estimate
    estimation,      \* engine: the record that call returned
    fetchedIssues,   \* cross-org: the normalized issues of all connections
    crossOrgModel,   \* cross-org: the model buildCrossOrgEstimationModel returned
    crossOrgRequest, \* cross-org: the arguments of the last estimateWithCrossOrgModel
    crossOrgEstimate,  \* cross-org: the record that call returned
    timedIssues,     \* single-source: what fetchClosedIssuesWithTiming returned
    estimationModel, \* single-source: the model buildEstimationModel returned
    openIssue,       \* single-source: the issue of the last estimateStoryPoints
    storyPointsEstimate,  \* single-source: the record that call returned
    connectors,      \* manager: the field PlatformManager.connectors
    fetchOutcome,    \* manager: per connector, how conn.fetchIssues has ended
    callbackPromise, \* manager: per connector, the promise of its map callback
    results,         \* manager: the object results of fetchAllIssues
    fetchAllPc,      \* manager: where the call of fetchAllIssues stands
    gapIssue,        \* gap analyzer: the GitHub issue handed to analyzeStoryGaps
    gapReport,       \* gap analyzer: the record analyzeStoryGaps returned
    cicdPc,          \* CI/CD view: whether CICDPipelines is mounted
    cicdPlatforms,   \* CI/CD view: whether a GitHub or Azure DevOps platform is configured
    data,            \* CI/CD view: the state data, the summary on display
    loading,         \* CI/CD view: the state loading
    error,           \* CI/CD view: the state error
    notConfigured,   \* CI/CD view: the state notConfigured
    autoRefresh,     \* CI/CD view: the state autoRefresh
    loadDataCalls,   \* CI/CD view: the calls of loadData, [origin, status] each
    chatRequests,    \* chat: the estimate requests of the participant, in order of arrival
    serverTotal,     \* Jira paging: the number of issues the server holds
    startAt,         \* Jira paging: the local startAt of fetchIssues
    pagedIssues,     \* Jira paging: the local allIssues of fetchIssues
    returnedIssues,  \* Jira paging: what fetchIssues returned
    jiraPc           \* Jira paging: where the call of fetchIssues stands

vars ==
    <<component, rawPoints, roundedPoints, rawIssue, unifiedIssue, lexiconText,
      keywordAnalysis, historicalData, story, estimation, fetchedIssues, crossOrgModel,
      crossOrgRequest, crossOrgEstimate, timedIssues, estimationModel, openIssue,
      storyPointsEstimate, connectors, fetchOutcome, callbackPromise, results, fetchAllPc,
      gapIssue, gapReport, cicdPc, cicdPlatforms, data, loading, error, notConfigured,
      autoRefresh, loadDataCalls, chatRequests, serverTotal, startAt, pagedIssues,
      returnedIssues, jiraPc>>

\* A component that is not exercised, and an output not yet produced.
Idle == [idle |-> TRUE]
\* JavaScript null / undefined (a missing optional field).
NULL == [null |-> TRUE]

(***************************************************************************)
(* Numbers.  A JavaScript number is modelled as an exact fraction n/d with  *)
(* d > 0, as +Infinity (n = 1, d = 0) or as NaN (n = 0, d = 0).             *)
(***************************************************************************)
Abs(i) == IF i < 0 THEN -i ELSE i

RECURSIVE Gcd(_, _)
Gcd(a, b) == IF b = 0 THEN a ELSE Gcd(b, a % b)

Frac(n, d) ==
    LET g == Gcd(Abs(n), d)
    IN  IF g = 0 THEN [n |-> 0, d |-> 1] ELSE [n |-> n \div g, d |-> d \div g]

Int2Num(i) == [n |-> i, d |-> 1]
Infinity == [n |-> 1, d |-> 0]
NaN == [n |-> 0, d |-> 0]
IsFinite(x) == x.d > 0
IsNaN(x) == x.d = 0 /\ x.n = 0

\* a < b on JavaScript numbers: every comparison with NaN is false.
NumLess(a, b) ==
    IF IsFinite(a) /\ IsFinite(b)
    THEN (IF a.d = b.d THEN a.n < b.n ELSE a.n * b.d < b.n * a.d)
    ELSE IsFinite(a) /\ b = Infinity

\* Math.abs(value - point) for an integer point.
AbsDiff(value, point) ==
    IF IsFinite(value) THEN [n |-> Abs(value.n - point * value.d), d |-> value.d]
    ELSE value

(***************************************************************************)
(* Fibonacci rounding.                                                      *)
(***************************************************************************)
STORY_POINTS == <<1, 2, 3, 5, 8, 13, 21>>

FibonacciValues == {STORY_POINTS[i] : i \in DOMAIN STORY_POINTS}

\* The for-loop of nearestFibonacci from table index i on, with the running
\* closest value.
RECURSIVE NearestFrom(_, _, _)
NearestFrom(value, i, closest) ==
    IF i > Len(STORY_POINTS) THEN closest
    ELSE IF NumLess(AbsDiff(value, STORY_POINTS[i]), AbsDiff(value, closest))
         THEN NearestFrom(value, i + 1, STORY_POINTS[i])
         ELSE NearestFrom(value, i + 1, closest)

\* Mutant: the comparison is <= , so the last of two equally near values wins.
RECURSIVE NearestFromLastWins(_, _, _)
NearestFromLastWins(value, i, closest) ==
    IF i > Len(STORY_POINTS) THEN closest
    ELSE IF ~NumLess(AbsDiff(value, closest), AbsDiff(value, STORY_POINTS[i]))
         THEN NearestFromLastWins(value, i + 1, STORY_POINTS[i])
         ELSE NearestFromLastWins(value, i + 1, closest)

\* Mutant: plain rounding to an integer clamped to 1..21, no table lookup.
NearestFibonacciClamp(value) ==
    IF ~IsFinite(value) THEN 1
    ELSE LET r == (2 * value.n + value.d) \div (2 * value.d)
         IN  IF r < 1 THEN 1 ELSE IF r > 21 THEN 21 ELSE r

NearestFibonacciLastWins(value) == NearestFromLastWins(value, 1, STORY_POINTS[1])

NearestFibonacci(value) == NearestFrom(value, 1, STORY_POINTS[1])

\* Array.prototype.reduce without an initial value, with the callback
\* (prev, curr) => |curr - raw| < |prev - raw| ? curr : prev.
RECURSIVE ReduceFrom(_, _, _, _)
ReduceFrom(fibonacci, raw, i, prev) ==
    IF i > Len(fibonacci) THEN prev
    ELSE IF NumLess(AbsDiff(raw, fibonacci[i]), AbsDiff(raw, prev))
         THEN ReduceFrom(fibonacci, raw, i + 1, fibonacci[i])
         ELSE ReduceFrom(fibonacci, raw, i + 1, prev)

\* Mutant: the callback keeps curr on equal distance.
RECURSIVE ReduceFromLastWins(_, _, _, _)
ReduceFromLastWins(fibonacci, raw, i, prev) ==
    IF i > Len(fibonacci) THEN prev
    ELSE IF ~NumLess(AbsDiff(raw, prev), AbsDiff(raw, fibonacci[i]))
         THEN ReduceFromLastWins(fibonacci, raw, i + 1, fibonacci[i])
         ELSE ReduceFromLastWins(fibonacci, raw, i + 1, prev)

ReduceNearestLastWins(fibonacci, raw) ==
    ReduceFromLastWins(fibonacci, raw, 2, fibonacci[1])

ReduceNearest(fibonacci, raw) == ReduceFrom(fibonacci, raw, 2, fibonacci[1])

\* The four reduce-based rounding sites.
CrossOrgRound(raw) == ReduceNearest(<<1, 2, 3, 5, 8, 13, 21>>, raw)
CrossOrgHeuristicRound(raw) == ReduceNearest(<<1, 2, 3, 5, 8, 13, 21>>, raw)
SingleSourceRound(raw) == ReduceNearest(<<1, 2, 3, 5, 8, 13, 21>>, raw)
SingleSourceHeuristicRound(raw) == ReduceNearest(<<1, 2, 3, 5, 8, 13, 21>>, raw)

(***************************************************************************)
(* Optional values and strings.                                             *)
(***************************************************************************)
\* A present optional value; an absent one is NULL.
Some(v) == [v |-> v]

UpperCaseLetters == "ABCDEFGHIJKLMNOPQRSTUVWXYZ"
LowerCaseLetters == "abcdefghijklmnopqrstuvwxyz"

CharAt(s, i) == SubSeq(s, i, i)

LowerChar(c) ==
    IF \E i \in 1 .. Len(UpperCaseLetters) : CharAt(UpperCaseLetters, i) = c
    THEN CharAt(LowerCaseLetters,
                CHOOSE i \in 1 .. Len(UpperCaseLetters) : CharAt(UpperCaseLetters, i) = c)
    ELSE c

\* String.prototype.toLowerCase
RECURSIVE ToLowerCase(_)
ToLowerCase(s) ==
    IF s = "" THEN "" ELSE LowerChar(CharAt(s, 1)) \o ToLowerCase(SubSeq(s, 2, Len(s)))

\* String.prototype.includes, and RegExp.test for an alternation of literals
StartsAt(s, i, k) ==
    i >= 1 /\ i + Len(k) - 1 <= Len(s) /\ SubSeq(s, i, i + Len(k) - 1) = k
Includes(s, k) == \E i \in 1 .. (Len(s) - Len(k) + 1) : StartsAt(s, i, k)
IncludesAny(s, ks) == \E k \in ks : Includes(s, k)

\* Array.prototype.join(' ')
RECURSIVE JoinFrom(_, _)
JoinFrom(arr, i) ==
    IF i > Len(arr) THEN ""
    ELSE IF i = Len(arr) THEN arr[i]
    ELSE arr[i] \o " " \o JoinFrom(arr, i + 1)
Join(arr) == JoinFrom(arr, 1)

Elements(arr) == {arr[i] : i \in DOMAIN arr}

IsSpace(c) == c \in {" ", "\t", "\n", "\r"}

Digits == "0123456789"
IsDigit(c) == Len(c) = 1 /\ Includes(Digits, c)
DigitValue(c) == (CHOOSE i \in 1 .. Len(Digits) : CharAt(Digits, i) = c) - 1

RECURSIVE DigitsEnd(_, _)
DigitsEnd(s, i) ==
    IF i + 1 > Len(s) \/ ~IsDigit(CharAt(s, i + 1)) THEN i ELSE DigitsEnd(s, i + 1)

RECURSIVE SkipSpaces(_, _)
SkipSpaces(s, i) ==
    IF i <= Len(s) /\ IsSpace(CharAt(s, i)) THEN SkipSpaces(s, i + 1) ELSE i

\* parseInt(digits, 10)
RECURSIVE ParseIntFrom(_, _, _)
ParseIntFrom(s, i, acc) ==
    IF i > Len(s) THEN acc ELSE ParseIntFrom(s, i + 1, 10 * acc + DigitValue(CharAt(s, i)))
ParseInt(s) == ParseIntFrom(s, 1, 0)

\* label.match(/^(sp|points?|story.?points?)[:\s-]?\d+$/i) ||
\* label.match(/^\d+\s*(sp|points?)?$/i)
AllDigits(s) == s # "" /\ \A i \in 1 .. Len(s) : IsDigit(CharAt(s, i))

PointsPrefixEnds(lower) ==
    {Len(k) : k \in {k \in {"sp", "point", "points"} : StartsAt(lower, 1, k)}}
    \cup {5 + Len(k) : k \in {k \in {"point", "points"} :
                                 StartsAt(lower, 1, "story") /\ StartsAt(lower, 6, k)}}
    \cup {6 + Len(k) : k \in {k \in {"point", "points"} :
                                 /\ StartsAt(lower, 1, "story")
                                 /\ Len(lower) >= 6 /\ CharAt(lower, 6) # "\n"
                                 /\ StartsAt(lower, 7, k)}}

IsPointsLabel(label) ==
    LET lower == ToLowerCase(label)
        Rest(k) == SubSeq(lower, k + 1, Len(lower))
    IN  \/ \E k \in PointsPrefixEnds(lower) :
              \/ AllDigits(Rest(k))
              \/ /\ k + 1 <= Len(lower)
                 /\ (CharAt(lower, k + 1) \in {":", "-"} \/ IsSpace(CharAt(lower, k + 1)))
                 /\ AllDigits(Rest(k + 1))
        \/ /\ lower # "" /\ IsDigit(CharAt(lower, 1))
           /\ Rest(SkipSpaces(lower, DigitsEnd(lower, 1) + 1) - 1)
                 \in {"", "sp", "point", "points"}

\* parseInt(pointsLabel.match(/\d+/)?.[0] || '0')
FirstNumber(label) ==
    LET starts == {i \in 1 .. Len(label) : IsDigit(CharAt(label, i))}
    IN  IF starts = {} THEN 0
        ELSE LET i == CHOOSE m \in starts : \A o \in starts : m <= o
             IN  ParseInt(SubSeq(label, i, DigitsEnd(label, i)))

\* labels.find(...) and the points of the label found, or null
RECURSIVE LabelStoryPoints(_)
LabelStoryPoints(labels) ==
    IF labels = <<>> THEN NULL
    ELSE IF IsPointsLabel(Head(labels)) THEN Some(FirstNumber(Head(labels)))
    ELSE LabelStoryPoints(Tail(labels))

(***************************************************************************)
(* Issue normalizer.  A timestamp of a payload is modelled by the instant   *)
(* (milliseconds) that new Date(...) reads from it, or NULL when the field  *)
(* is absent.                                                               *)
(***************************************************************************)
MsPerDay == 86400000

\* Math.ceil(ms / (1000 * 60 * 60 * 24))
CeilDays(ms) == -((-ms) \div MsPerDay)

\* Mutant: Math.floor, whole days elapsed.
CycleTimeFloor(created, closed) ==
    IF closed # NULL THEN Some((closed.v - created) \div MsPerDay) ELSE NULL

\* Mutant: the subtraction is done unconditionally, an absent close timestamp
\* read as new Date(null), the epoch.
CycleTimeUnconditional(created, closed) ==
    Some(CeilDays((IF closed # NULL THEN closed.v ELSE 0) - created))

\* closed ? Math.ceil((closed - created) / (1000 * 60 * 60 * 24)) : null
CycleTimeDays(created, closed) ==
    IF closed # NULL THEN Some(CeilDays(closed.v - created)) ELSE NULL

\* detectIssueType
detectIssueType(labels, title) ==
    LET text == ToLowerCase(Join(labels) \o " " \o title)
        lower == {ToLowerCase(l) : l \in Elements(labels)}
    IN  IF lower \cap {"bug", "fix", "type/bug"} # {} \/ IncludesAny(text, {"bug", "fix"})
        THEN "bug"
        ELSE IF lower \cap {"feature", "enhancement", "type/feature"} # {}
                \/ IncludesAny(text, {"feature", "new"})
        THEN "feature"
        ELSE IF lower \cap {"chore", "maintenance"} # {} THEN "chore"
        ELSE "task"

\* /priority.?(a|b|...)/.test(s)
PriorityPattern(s, alternatives) ==
    \E a \in alternatives :
        \/ Includes(s, "priority" \o a)
        \/ \E i \in 1 .. Len(s) :
              /\ StartsAt(s, i, "priority")
              /\ i + 8 <= Len(s)
              /\ CharAt(s, i + 8) # "\n"
              /\ StartsAt(s, i + 9, a)

\* detectPriority
detectPriority(labels) ==
    LET labelStr == ToLowerCase(Join(labels))
    IN  IF PriorityPattern(labelStr, {"high", "critical", "urgent", "p0", "p1"})
           \/ \E l \in Elements(labels) : Includes(ToLowerCase(l), "blocker")
        THEN "high"
        ELSE IF PriorityPattern(labelStr, {"low", "minor", "p3", "p4"}) THEN "low"
        ELSE "medium"

\* mapAdoPriority: a comparison with undefined is false
mapAdoPriority(priority) ==
    IF priority # NULL /\ priority.v <= 1 THEN "high"
    ELSE IF priority # NULL /\ priority.v >= 3 THEN "low"
    ELSE "medium"

\* fields[...]?.toLowerCase(): undefined stays undefined
OptLower(s) == IF s = NULL THEN NULL ELSE Some(ToLowerCase(s.v))
\* [...].includes(x) for an optional string x
ListIncludes(list, x) == x # NULL /\ x.v \in list

normalizeGitHubIssue(issue) ==
    LET labels == issue.labels
        created == issue.created_at
        closed == issue.closed_at
    IN  [platform |-> "github",
         title |-> issue.title,
         description |-> IF issue.body = NULL THEN "" ELSE issue.body.v,
         state |-> IF issue.state = "closed" THEN "closed" ELSE "open",
         type |-> detectIssueType(labels, issue.title),
         priority |-> detectPriority(labels),
         storyPoints |-> LabelStoryPoints(labels),
         labels |-> labels,
         createdAt |-> created,
         closedAt |-> closed,
         cycleTimeDays |-> CycleTimeDays(created, closed)]

normalizeAzureDevOpsWorkItem(item) ==
    LET fields == item.fields
        created == fields.CreatedDate
        closed == fields.ClosedDate
        state == OptLower(fields.State)
        normalizedState ==
            IF ListIncludes({"done", "closed", "resolved", "completed"}, state) THEN "closed"
            ELSE IF ListIncludes({"active", "in progress", "doing"}, state) THEN "in-progress"
            ELSE "open"
        workItemType == OptLower(fields.WorkItemType)
        type ==
            IF workItemType = Some("bug") THEN "bug"
            ELSE IF ListIncludes({"user story", "story", "feature"}, workItemType)
            THEN "feature"
            ELSE IF ListIncludes({"task"}, workItemType) THEN "task"
            ELSE "task"
    IN  [platform |-> "azuredevops",
         title |-> IF fields.Title = NULL THEN "" ELSE fields.Title.v,
         description |-> IF fields.Description = NULL THEN "" ELSE fields.Description.v,
         state |-> normalizedState,
         type |-> type,
         priority |-> mapAdoPriority(fields.Priority),
         storyPoints |->
            IF fields.StoryPoints # NULL /\ fields.StoryPoints.v # 0
            THEN fields.StoryPoints ELSE NULL,
         createdAt |-> created,
         closedAt |-> closed,
         cycleTimeDays |-> CycleTimeDays(created, closed)]

\* a || b on optional numbers: a when a is truthy (present and not 0), else b
OrElse(a, b) == IF a # NULL /\ a.v # 0 THEN a ELSE b

normalizeJiraIssue(issue) ==
    LET fields == issue.fields
        created == fields.created
        resolved == fields.resolutiondate
        status == IF fields.status = NULL THEN "" ELSE ToLowerCase(fields.status.v)
        normalizedState ==
            IF status \in {"done", "closed", "resolved"} THEN "closed"
            ELSE IF status \in {"in progress", "in review", "testing"} THEN "in-progress"
            ELSE "open"
        issueType == IF fields.issuetype = NULL THEN "" ELSE ToLowerCase(fields.issuetype.v)
        type ==
            IF issueType = "bug" THEN "bug"
            ELSE IF issueType \in {"story", "user story", "feature"} THEN "feature"
            ELSE IF issueType \in {"epic"} THEN "epic"
            ELSE "task"
        storyPoints ==
            OrElse(fields.customfield_10016,
              OrElse(fields.customfield_10026,
                OrElse(fields.customfield_10004,
                  OrElse(fields.StoryPoints, NULL))))
    IN  [platform |-> "jira",
         title |-> IF fields.summary = NULL THEN "" ELSE fields.summary.v,
         description |-> IF fields.description = NULL THEN "" ELSE fields.description.v,
         state |-> normalizedState,
         type |-> type,
         priority |->
            IF fields.priority = NULL \/ fields.priority.v = "" THEN "medium"
            ELSE ToLowerCase(fields.priority.v),
         storyPoints |-> storyPoints,
         createdAt |-> created,
         closedAt |-> resolved,
         cycleTimeDays |-> CycleTimeDays(created, resolved)]

\* normalizeIssue: the dispatch on the platform
normalizeIssue(issue, platform) ==
    CASE platform = "github" -> normalizeGitHubIssue(issue)
      [] platform = "azuredevops" -> normalizeAzureDevOpsWorkItem(issue)
      [] platform = "jira" -> normalizeJiraIssue(issue)

(***************************************************************************)
(* Complexity lexicon and keyword analyzer.                                 *)
(***************************************************************************)
\* Mutant: security and integration are keywords of the low tier.
COMPLEXITY_INDICATORS_LowTier ==
    [high |-> <<"refactor", "migration", "architecture", "performance",
                "database", "api redesign", "breaking change", "major",
                "infrastructure", "scalability", "distributed", "concurrent">>,
     medium |-> <<"feature", "enhancement", "implement", "create", "add support",
                  "update", "extend", "new endpoint", "authentication", "validation">>,
     low |-> <<"fix", "bug", "typo", "update text", "documentation", "config",
               "minor", "small", "quick", "simple", "rename", "cleanup", "security",
               "integration">>]

COMPLEXITY_INDICATORS ==
    [high |-> <<"refactor", "migration", "architecture", "security", "performance",
                "database", "integration", "api redesign", "breaking change", "major",
                "infrastructure", "scalability", "distributed", "concurrent">>,
     medium |-> <<"feature", "enhancement", "implement", "create", "add support",
                  "update", "extend", "new endpoint", "authentication", "validation">>,
     low |-> <<"fix", "bug", "typo", "update text", "documentation", "config",
               "minor", "small", "quick", "simple", "rename", "cleanup">>]

\* The keywords of a tier that the text includes, in table order.
RECURSIVE MatchedFrom(_, _, _)
MatchedFrom(text, keywords, i) ==
    IF i > Len(keywords) THEN <<>>
    ELSE (IF Includes(text, keywords[i]) THEN <<keywords[i]>> ELSE <<>>)
         \o MatchedFrom(text, keywords, i + 1)
Matched(text, keywords) == MatchedFrom(text, keywords, 1)

\* arr.slice(0, n)
Slice(arr, n) == SubSeq(arr, 1, IF Len(arr) < n THEN Len(arr) ELSE n)

\* Array.prototype.join(', ')
RECURSIVE JoinCommaFrom(_, _)
JoinCommaFrom(arr, i) ==
    IF i > Len(arr) THEN ""
    ELSE IF i = Len(arr) THEN arr[i]
    ELSE arr[i] \o ", " \o JoinCommaFrom(arr, i + 1)
JoinComma(arr) == JoinCommaFrom(arr, 1)

\* Mutant: the low-tier branches are tested before the "standard" branch.
KeywordPointsLowFirst(highCount, mediumCount, lowCount) ==
    IF highCount >= 2 THEN 13
    ELSE IF highCount = 1 THEN 8
    ELSE IF mediumCount >= 2 THEN 5
    ELSE IF lowCount >= 2 THEN 1
    ELSE IF mediumCount = 1 \/ lowCount = 0 THEN 3
    ELSE 2

\* The if / else-if chain of analyzeKeywordComplexity on the three counts.
KeywordPoints(highCount, mediumCount, lowCount) ==
    IF highCount >= 2 THEN 13
    ELSE IF highCount = 1 THEN 8
    ELSE IF mediumCount >= 2 THEN 5
    ELSE IF mediumCount = 1 \/ lowCount = 0 THEN 3
    ELSE IF lowCount >= 2 THEN 1
    ELSE 2

KeywordReason(highCount, mediumCount, lowCount, matchedKeywords) ==
    IF highCount >= 2
    THEN "High complexity indicators: " \o JoinComma(Slice(matchedKeywords, 3))
    ELSE IF highCount = 1 THEN "Complexity indicator found: " \o matchedKeywords[1]
    ELSE IF mediumCount >= 2
    THEN "Medium complexity: " \o JoinComma(Slice(matchedKeywords, 3))
    ELSE IF mediumCount = 1 \/ lowCount = 0 THEN "Standard feature complexity"
    ELSE IF lowCount >= 2
    THEN "Low complexity indicators: " \o JoinComma(Slice(matchedKeywords, 3))
    ELSE "Default estimate for unclear scope"

analyzeKeywordComplexity(text) ==
    LET high == Matched(text, COMPLEXITY_INDICATORS.high)
        medium == Matched(text, COMPLEXITY_INDICATORS.medium)
        low == Matched(text, COMPLEXITY_INDICATORS.low)
        highCount == Len(high)
        mediumCount == Len(medium)
        lowCount == Len(low)
        matchedKeywords == high \o medium \o low
    IN  [points |-> KeywordPoints(highCount, mediumCount, lowCount),
         reason |-> KeywordReason(highCount, mediumCount, lowCount, matchedKeywords),
         matchCount |-> highCount + mediumCount + lowCount,
         matchedKeywords |-> matchedKeywords]

(***************************************************************************)
(* Single-source estimation engine.                                         *)
(***************************************************************************)
\* The end of the run of non-space characters that starts at i.
RECURSIVE WordEnd(_, _)
WordEnd(s, i) ==
    IF i + 1 > Len(s) \/ IsSpace(CharAt(s, i + 1)) THEN i ELSE WordEnd(s, i + 1)

\* new Set(text.split(/\s+/).filter(w => w.length > 3))
WordSet(text) ==
    LET starts == {i \in 1 .. Len(text) :
                      /\ ~IsSpace(CharAt(text, i))
                      /\ (i = 1 \/ IsSpace(CharAt(text, i - 1)))}
        words == {SubSeq(text, i, WordEnd(text, i)) : i \in starts}
    IN  {w \in words : Len(w) > 3}

\* Mutant: the overlap is divided by the size of the candidate's word set.
JaccardOverText(textWords, issueWords) ==
    LET intersection == Cardinality({w \in textWords : w \in issueWords})
    IN  IF Cardinality(textWords) > 0
        THEN Frac(intersection, Cardinality(textWords)) ELSE Int2Num(0)

\* Mutant: the guard against an empty union is missing, 0 / 0 is NaN.
JaccardUnguarded(textWords, issueWords) ==
    LET intersection == Cardinality({w \in textWords : w \in issueWords})
        union == Cardinality(textWords \cup issueWords)
    IN  IF union > 0 THEN Frac(intersection, union) ELSE NaN

\* Calculate Jaccard similarity
Jaccard(textWords, issueWords) ==
    LET intersection == Cardinality({w \in textWords : w \in issueWords})
        union == Cardinality(textWords \cup issueWords)
    IN  IF union > 0 THEN Frac(intersection, union) ELSE Int2Num(0)

\* name.match(/(\d+)\s*points?/i): the number of the leftmost match, or NULL
PointsMatch(name) ==
    LET lower == ToLowerCase(name)
        matches == {i \in 1 .. Len(lower) :
                       /\ IsDigit(CharAt(lower, i))
                       /\ StartsAt(lower, SkipSpaces(lower, DigitsEnd(lower, i) + 1), "point")}
    IN  IF matches = {} THEN NULL
        ELSE LET i == CHOOSE m \in matches : \A o \in matches : m <= o
             IN  Some(ParseInt(SubSeq(lower, i, DigitsEnd(lower, i))))

\* The for loop over issue.labels: the first label that matches decides.
RECURSIVE LabelPointsFrom(_, _, _)
LabelPointsFrom(labels, i, storyPoints) ==
    IF i > Len(labels) THEN storyPoints
    ELSE IF PointsMatch(labels[i].name) # NULL THEN PointsMatch(labels[i].name).v
    ELSE LabelPointsFrom(labels, i + 1, storyPoints)

\* Mutant: the labels are read only when issue.storyPoints is absent.
HistoricalPointsExplicitFirst(issue) ==
    IF issue.storyPoints # NULL THEN issue.storyPoints.v
    ELSE IF issue.labels # NULL THEN LabelPointsFrom(issue.labels.v, 1, 3)
    ELSE 3

\* issue.storyPoints || 3, then the labels
HistoricalPoints(issue) ==
    LET storyPoints ==
            IF issue.storyPoints # NULL /\ issue.storyPoints.v # 0
            THEN issue.storyPoints.v ELSE 3
    IN  IF issue.labels # NULL THEN LabelPointsFrom(issue.labels.v, 1, storyPoints)
        ELSE storyPoints

\* `${issue.title} ${issue.body || ''} ${labelNames}`.toLowerCase()
IssueText(issue) ==
    LET labelNames ==
            IF issue.labels = NULL THEN ""
            ELSE Join([i \in DOMAIN issue.labels.v |-> issue.labels.v[i].name])
    IN  ToLowerCase(issue.title \o " " \o (IF issue.body = NULL THEN "" ELSE issue.body.v)
                    \o " " \o labelNames)

\* The callback of historicalData.map
SimilarityOf(text, issue) ==
    [title |-> issue.title,
     points |-> HistoricalPoints(issue),
     similarity |-> Jaccard(WordSet(text), WordSet(IssueText(issue)))]

\* Array.prototype.filter
RECURSIVE FilterSimilar(_, _)
FilterSimilar(items, threshold) ==
    IF items = <<>> THEN <<>>
    ELSE (IF NumLess(threshold, Head(items).similarity) THEN <<Head(items)>> ELSE <<>>)
         \o FilterSimilar(Tail(items), threshold)

\* Array.prototype.sort((a, b) => b.similarity - a.similarity): a stable sort,
\* modelled by insertion behind the items that are not less similar.
RECURSIVE InsertSorted(_, _)
InsertSorted(item, sorted) ==
    IF sorted = <<>> THEN <<item>>
    ELSE IF NumLess(Head(sorted).similarity, item.similarity) THEN <<item>> \o sorted
    ELSE <<Head(sorted)>> \o InsertSorted(item, Tail(sorted))

RECURSIVE SortFrom(_, _, _)
SortFrom(items, i, sorted) ==
    IF i > Len(items) THEN sorted
    ELSE SortFrom(items, i + 1, InsertSorted(items[i], sorted))
SortBySimilarity(items) == SortFrom(items, 1, <<>>)

SimilarityThreshold == Frac(1, 10)

findSimilarIssues(historical, text) ==
    IF Len(historical) = 0 THEN <<>>
    ELSE SortBySimilarity(
             FilterSimilar([i \in DOMAIN historical |-> SimilarityOf(text, historical[i])],
                           SimilarityThreshold))

getPointsLabel(points) ==
    CASE points = 1 -> "Trivial"
      [] points = 2 -> "Small"
      [] points = 3 -> "Medium"
      [] points = 5 -> "Large"
      [] points = 8 -> "Very Large"
      [] points = 13 -> "Epic"
      [] points = 21 -> "Needs Breakdown"
      [] OTHER -> "Unknown"

\* `${storyText} ${description || ''} ${(labels || []).join(' ')}`.toLowerCase()
EstimateText(storyText, description, labels) ==
    ToLowerCase(storyText \o " " \o (IF description = NULL THEN "" ELSE description.v)
                \o " " \o (IF labels = NULL THEN "" ELSE Join(labels.v)))

RECURSIVE SumPoints(_)
SumPoints(items) == IF items = <<>> THEN 0 ELSE Head(items).points + SumPoints(Tail(items))

\* Mutant: a single very similar issue is enough for the strong branch.
EstimateBranchAnyCount(similarIssues) ==
    IF Len(similarIssues) >= 1 /\ NumLess(Frac(5, 10), similarIssues[1].similarity)
    THEN "strong"
    ELSE IF Len(similarIssues) >= 1 /\ NumLess(Frac(3, 10), similarIssues[1].similarity)
    THEN "weak"
    ELSE "keywords"

\* Which of the three branches of estimate is taken.
EstimateBranch(similarIssues) ==
    IF Len(similarIssues) >= 3 /\ NumLess(Frac(5, 10), similarIssues[1].similarity)
    THEN "strong"
    ELSE IF Len(similarIssues) >= 1 /\ NumLess(Frac(3, 10), similarIssues[1].similarity)
    THEN "weak"
    ELSE "keywords"

\* Mutant: the weak branch takes the historical points alone.
EstimatePointsNoBlend(branch, similarIssues, keywordComplexity) ==
    CASE branch = "strong" ->
           NearestFibonacci(Frac(SumPoints(Slice(similarIssues, 3)), 3))
      [] branch = "weak" -> NearestFibonacci(Int2Num(similarIssues[1].points))
      [] branch = "keywords" -> keywordComplexity.points

EstimatePoints(branch, similarIssues, keywordComplexity) ==
    CASE branch = "strong" ->
           NearestFibonacci(Frac(SumPoints(Slice(similarIssues, 3)), 3))
      [] branch = "weak" ->
           NearestFibonacci(Frac(similarIssues[1].points + keywordComplexity.points, 2))
      [] branch = "keywords" -> keywordComplexity.points

EstimateConfidence(branch, similarIssues, keywordComplexity) ==
    CASE branch = "strong" ->
           IF NumLess(Frac(7, 10), similarIssues[1].similarity) THEN 85 ELSE 70
      [] branch = "weak" -> 60
      [] branch = "keywords" -> IF keywordComplexity.matchCount > 2 THEN 55 ELSE 40

\* Mutant: Math.round in place of Math.ceil.
EstimatedDaysRounded(points) == (points * 3 + 2) \div 4

\* Math.ceil(points * 0.75)
EstimatedDays(points) == -((-(points * 3)) \div 4)

\* Mutant: the three tests form an else-if chain, at most one warning is added.
UnderestimationWarningsFirstOnly(text, points) ==
    IF Includes(text, "integration") /\ points < 5
    THEN <<"Integration work often takes longer than expected">>
    ELSE IF Includes(text, "security") /\ points < 5
    THEN <<"Security features require thorough review and testing">>
    ELSE IF Len(text) < 50
    THEN <<"Story description is brief - consider adding more detail">>
    ELSE <<>>

\* Add warnings for potentially underestimated stories: three separate ifs
UnderestimationWarnings(text, points) ==
    (IF Includes(text, "integration") /\ points < 5
     THEN <<"Integration work often takes longer than expected">> ELSE <<>>)
    \o (IF Includes(text, "security") /\ points < 5
        THEN <<"Security features require thorough review and testing">> ELSE <<>>)
    \o (IF Len(text) < 50
        THEN <<"Story description is brief - consider adding more detail">> ELSE <<>>)

estimate(historical, storyText, description, labels) ==
    LET text == EstimateText(storyText, description, labels)
        similarIssues == findSimilarIssues(historical, text)
        keywordComplexity == analyzeKeywordComplexity(text)
        branch == EstimateBranch(similarIssues)
        points == EstimatePoints(branch, similarIssues, keywordComplexity)
        confidence == EstimateConfidence(branch, similarIssues, keywordComplexity)
        basedOn ==
            CASE branch = "strong" ->
                   [count |-> Len(similarIssues), text |-> "similar completed stories"]
              [] branch = "weak" ->
                   [count |-> Len(similarIssues),
                    text |-> "related stories + complexity analysis"]
              [] branch = "keywords" -> [count |-> 0, text |-> keywordComplexity.reason]
        warnings ==
            (IF branch = "keywords" /\ Len(historical) = 0
             THEN <<"No historical data available - estimate based on heuristics only">>
             ELSE <<>>)
            \o UnderestimationWarnings(text, points)
    IN  [points |-> points,
         label |-> getPointsLabel(points),
         confidence |-> confidence,
         estimatedDays |-> EstimatedDays(points),
         basedOn |-> basedOn,
         warnings |-> warnings,
         similarIssues |-> Slice(similarIssues, 3)]

(***************************************************************************)
(* Arithmetic of JavaScript numbers on values that are not negative.        *)
(***************************************************************************)
NumAdd(a, b) ==
    IF IsNaN(a) \/ IsNaN(b) THEN NaN
    ELSE IF ~IsFinite(a) \/ ~IsFinite(b) THEN Infinity
    ELSE Frac(a.n * b.d + b.n * a.d, a.d * b.d)

NumMul(a, b) ==
    IF IsNaN(a) \/ IsNaN(b) THEN NaN
    ELSE IF ~IsFinite(a) THEN (IF b.n = 0 THEN NaN ELSE Infinity)
    ELSE IF ~IsFinite(b) THEN (IF a.n = 0 THEN NaN ELSE Infinity)
    ELSE Frac(a.n * b.n, a.d * b.d)

NumDiv(a, b) ==
    IF IsNaN(a) \/ IsNaN(b) THEN NaN
    ELSE IF ~IsFinite(a) THEN (IF IsFinite(b) THEN Infinity ELSE NaN)
    ELSE IF ~IsFinite(b) THEN Int2Num(0)
    ELSE IF b.n = 0 THEN (IF a.n = 0 THEN NaN ELSE Infinity)
    ELSE Frac(a.n * b.d, a.d * b.n)

\* x || fallback on numbers: 0 and NaN are falsy
NumOr(x, fallback) == IF IsNaN(x) \/ (IsFinite(x) /\ x.n = 0) THEN fallback ELSE x

\* Math.round
NumRound(x) ==
    IF IsFinite(x) THEN Int2Num((2 * x.n + x.d) \div (2 * x.d)) ELSE x

\* Math.min(95, x) for an integer x
Min95(x) == IF x < 95 THEN x ELSE 95

\* arr.slice(lo - 1, hi).reduce((a, b) => a + b, 0): the additions are exact, so
\* the sum is taken by halves, which keeps the evaluation shallow on long arrays
RECURSIVE NumSumBetween(_, _, _)
NumSumBetween(arr, lo, hi) ==
    IF lo > hi THEN Int2Num(0)
    ELSE IF lo = hi THEN NumAdd(Int2Num(0), arr[lo])
    ELSE LET mid == (lo + hi) \div 2
         IN  NumAdd(NumSumBetween(arr, lo, mid), NumSumBetween(arr, mid + 1, hi))

\* arr.reduce((a, b) => a + b, 0)
NumSum(arr) == NumSumBetween(arr, 1, Len(arr))

\* avg = arr => arr.length ? arr.reduce((a, b) => a + b, 0) / arr.length : 0
avg(arr) == IF Len(arr) # 0 THEN NumDiv(NumSum(arr), Int2Num(Len(arr))) ELSE Int2Num(0)

\* A present number that is not 0 (a truthy optional number)
Truthy(x) == x # NULL /\ x.v # 0

(***************************************************************************)
(* Cross-org estimation model builder and trained estimator.                *)
(***************************************************************************)
PLATFORM_NAMES ==
    [github |-> "GitHub", azuredevops |-> "Azure DevOps", jira |-> "Jira"]

CycleTimes(issues) == [i \in DOMAIN issues |-> Int2Num(issues[i].cycleTimeDays.v)]

\* i.state === 'closed' && i.cycleTimeDays
CrossOrgQualifies(i) == i.state = "closed" /\ Truthy(i.cycleTimeDays)

MinSampleSize == 5

\* closedIssues.length < 5 is the case without enough data
HasEnoughData(count) == ~(count < MinSampleSize)

\* withX.length > 2 ? avg(withX.map(i => i.cycleTimeDays)) / baseAvg : fallback
ComplexityMultiplier(cycleTimes, baseAvg, fallback) ==
    IF Len(cycleTimes) > 2 THEN NumDiv(avg(cycleTimes), baseAvg) ELSE fallback

\* The platforms of the issues, in the order of their first occurrence
RECURSIVE PlatformsOf(_, _)
PlatformsOf(issues, seen) ==
    IF issues = <<>> THEN <<>>
    ELSE IF Head(issues).platform \in seen THEN PlatformsOf(Tail(issues), seen)
    ELSE <<Head(issues).platform>>
         \o PlatformsOf(Tail(issues), seen \cup {Head(issues).platform})

buildCrossOrgEstimationModel(allIssues) ==
    LET closedIssues == SelectSeq(allIssues, CrossOrgQualifies)
        IsFeature(i) == i.type = "feature"
        IsBug(i) == i.type = "bug"
        IsTask(i) == i.type = "task"
        IssueWords(i) == ToLowerCase(i.title \o i.description)
        HasApi(i) == IncludesAny(IssueWords(i), {"api", "endpoint", "integration"})
        HasDb(i) == IncludesAny(IssueWords(i), {"database", "migration", "schema"})
        HasAuth(i) ==
            IncludesAny(IssueWords(i), {"auth", "login", "permission", "security"})
        features == SelectSeq(closedIssues, IsFeature)
        bugs == SelectSeq(closedIssues, IsBug)
        tasks == SelectSeq(closedIssues, IsTask)
        withApi == SelectSeq(closedIssues, HasApi)
        withDb == SelectSeq(closedIssues, HasDb)
        withAuth == SelectSeq(closedIssues, HasAuth)
        baseAvg == avg(CycleTimes(closedIssues))
        Pointed(i) == Truthy(i.storyPoints)
        pointedIssues == SelectSeq(closedIssues, Pointed)
        byPlatform == PlatformsOf(closedIssues, {})
        CountOn(p) == Len(SelectSeq(closedIssues, LAMBDA i : i.platform = p))
    IN  IF ~HasEnoughData(Len(closedIssues))
        THEN [hasEnoughData |-> FALSE, sampleSize |-> Len(closedIssues),
              platforms |-> <<>>]
        ELSE [hasEnoughData |-> TRUE,
              sampleSize |-> Len(closedIssues),
              platforms |->
                 [k \in DOMAIN byPlatform |->
                    [platform |-> byPlatform[k],
                     count |-> CountOn(byPlatform[k]),
                     name |-> PLATFORM_NAMES[byPlatform[k]]]],
              avgCycleTime |->
                 [feature |-> NumOr(avg(CycleTimes(features)), Int2Num(5)),
                  bug |-> NumOr(avg(CycleTimes(bugs)), Int2Num(2)),
                  task |-> NumOr(avg(CycleTimes(tasks)), Int2Num(3))],
              complexityMultipliers |->
                 [api |-> ComplexityMultiplier(CycleTimes(withApi), baseAvg, Frac(13, 10)),
                  db |-> ComplexityMultiplier(CycleTimes(withDb), baseAvg, Frac(14, 10)),
                  auth |->
                    ComplexityMultiplier(CycleTimes(withAuth), baseAvg, Frac(15, 10))],
              pointsToDays |->
                 IF Len(pointedIssues) > 3
                 THEN avg([k \in DOMAIN pointedIssues |->
                             NumDiv(Int2Num(pointedIssues[k].cycleTimeDays.v),
                                    Int2Num(pointedIssues[k].storyPoints.v))])
                 ELSE Int2Num(1),
              pointedIssuesCount |-> Len(pointedIssues)]

\* Mutant: the fallback takes its points from the keyword decision table.
platformsHeuristicEstimateByLexicon(title, description, labels) ==
    LET finalPoints ==
            analyzeKeywordComplexity(ToLowerCase(title \o " " \o description)).points
    IN  [points |-> finalPoints,
         estimatedDays |-> Int2Num(finalPoints),
         confidence |-> 40,
         breakdown |->
            [type |-> "Unknown", complexityFactors |-> <<>>,
             learnedFrom |-> "Heuristics only"],
         isHeuristic |-> TRUE]

\* heuristicEstimate of platforms.js
platformsHeuristicEstimate(title, description, labels) ==
    LET text == ToLowerCase(title \o " " \o description)
        base ==
            IF IncludesAny(text, {"bug", "fix"}) THEN 2
            ELSE IF IncludesAny(text, {"new", "create", "implement", "feature"}) THEN 5
            ELSE 3
        withApi == base + (IF IncludesAny(text, {"api", "integration"}) THEN 2 ELSE 0)
        withDb == withApi + (IF IncludesAny(text, {"database", "migration"}) THEN 2 ELSE 0)
        withAuth == withDb + (IF IncludesAny(text, {"auth", "security"}) THEN 2 ELSE 0)
        points ==
            IF IncludesAny(text, {"simple", "small", "minor"})
            THEN (IF withAuth - 2 > 1 THEN withAuth - 2 ELSE 1)
            ELSE withAuth
        factors ==
            (IF IncludesAny(text, {"bug", "fix"}) THEN <<"Bug fix (typically smaller)">>
             ELSE IF IncludesAny(text, {"new", "create", "implement", "feature"})
                  THEN <<"New feature">> ELSE <<>>)
            \o (IF IncludesAny(text, {"api", "integration"}) THEN <<"+2 API work">> ELSE <<>>)
            \o (IF IncludesAny(text, {"database", "migration"})
                THEN <<"+2 Database">> ELSE <<>>)
            \o (IF IncludesAny(text, {"auth", "security"})
                THEN <<"+2 Auth/Security">> ELSE <<>>)
            \o (IF IncludesAny(text, {"simple", "small", "minor"})
                THEN <<"-2 Simple">> ELSE <<>>)
        finalPoints == CrossOrgHeuristicRound(Int2Num(points))
    IN  [points |-> finalPoints,
         estimatedDays |-> Int2Num(finalPoints),
         confidence |-> 40,
         breakdown |->
            [type |-> "Unknown", complexityFactors |-> factors,
             learnedFrom |-> "Heuristics only"],
         isHeuristic |-> TRUE]

\* Mutant: the tests form an else-if chain, only the first match multiplies.
ApplyMultipliersFirstOnly(baseDays, text, multipliers, triggers) ==
    IF IncludesAny(text, triggers.api) THEN NumMul(baseDays, multipliers.api)
    ELSE IF IncludesAny(text, triggers.db) THEN NumMul(baseDays, multipliers.db)
    ELSE IF IncludesAny(text, triggers.auth) THEN NumMul(baseDays, multipliers.auth)
    ELSE baseDays

\* The product of the multipliers whose trigger matches, applied in code order
ApplyMultipliers(baseDays, text, multipliers, triggers) ==
    LET afterApi ==
            IF IncludesAny(text, triggers.api)
            THEN NumMul(baseDays, multipliers.api) ELSE baseDays
        afterDb ==
            IF IncludesAny(text, triggers.db)
            THEN NumMul(afterApi, multipliers.db) ELSE afterApi
    IN  IF IncludesAny(text, triggers.auth)
        THEN NumMul(afterDb, multipliers.auth) ELSE afterDb

ComplexityTriggers ==
    [api |-> {"api", "endpoint", "integration"},
     db |-> {"database", "migration", "schema"},
     auth |-> {"auth", "login", "permission", "security"}]

\* model.platforms.map(p => `${p.name} (${p.count})`).join(', ')
LearnedFrom(platforms) ==
    JoinComma([k \in DOMAIN platforms |->
                 platforms[k].name \o " (" \o ToString(platforms[k].count) \o ")"])

\* Mutant: the confidence grows by 10 per sample and is not capped.
CrossOrgConfidenceUncapped(sampleSize) == 50 + 10 * sampleSize

\* Math.min(95, 50 + model.sampleSize)
CrossOrgConfidence(sampleSize) == Min95(50 + sampleSize)

estimateWithCrossOrgModel(title, description, labels, model) ==
    IF ~model.hasEnoughData THEN platformsHeuristicEstimate(title, description, labels)
    ELSE
    LET text == ToLowerCase(title \o " " \o description)
        labelLower == {ToLowerCase(l) : l \in Elements(labels)}
        isFeature ==
            \/ labelLower \cap {"feature", "enhancement", "story"} # {}
            \/ IncludesAny(text, {"new", "create", "implement", "feature"})
        isBug ==
            \/ labelLower \cap {"bug", "fix"} # {}
            \/ IncludesAny(text, {"bug", "fix", "broken"})
        typeDays ==
            IF isFeature THEN model.avgCycleTime.feature
            ELSE IF isBug THEN model.avgCycleTime.bug
            ELSE model.avgCycleTime.task
        baseDays ==
            ApplyMultipliers(typeDays, text, model.complexityMultipliers, ComplexityTriggers)
        rawPts == NumDiv(baseDays, model.pointsToDays)
        factors ==
            (IF IncludesAny(text, ComplexityTriggers.api)
             THEN <<"API/Integration work">> ELSE <<>>)
            \o (IF IncludesAny(text, ComplexityTriggers.db)
                THEN <<"Database changes">> ELSE <<>>)
            \o (IF IncludesAny(text, ComplexityTriggers.auth)
                THEN <<"Auth/Security">> ELSE <<>>)
    IN  [points |-> CrossOrgRound(rawPts),
         estimatedDays |-> NumRound(baseDays),
         confidence |-> CrossOrgConfidence(model.sampleSize),
         breakdown |->
            [type |-> IF isFeature THEN "Feature" ELSE IF isBug THEN "Bug" ELSE "Task",
             complexityFactors |-> factors,
             learnedFrom |-> LearnedFrom(model.platforms)]]

(***************************************************************************)
(* Single-source estimation model builder and trained estimator.            *)
(***************************************************************************)
\* fetchClosedIssuesWithTiming: what is made of the issues of the response
closedIssueWithTiming(issue) ==
    LET labels == [k \in DOMAIN issue.labels |-> ToLowerCase(issue.labels[k])]
        text == ToLowerCase(issue.title \o " "
                            \o (IF issue.body = NULL THEN "" ELSE issue.body.v))
    IN  [title |-> issue.title,
         cycleTimeDays |-> CeilDays(issue.closed_at - issue.created_at),
         points |-> LabelStoryPoints(issue.labels),
         isFeature |-> Elements(labels) \cap {"feature", "enhancement", "type/feature"} # {},
         isBug |-> Elements(labels) \cap {"bug", "fix", "type/bug"} # {},
         isChore |-> Elements(labels) \cap {"chore", "maintenance", "tech-debt"} # {},
         complexityIndicators |->
            [hasApi |-> IncludesAny(text, {"api", "endpoint", "integration", "external"}),
             hasDb |-> IncludesAny(text, {"database", "migration", "schema", "model"}),
             hasUi |->
                IncludesAny(text, {"ui", "component", "page", "screen", "modal", "form"}),
             hasAuth |->
                IncludesAny(text, {"auth", "login", "permission", "role", "security"}),
             hasTesting |-> IncludesAny(text, {"test", "spec", "coverage"}),
             isRefactor |-> IncludesAny(text, {"refactor", "rewrite", "redesign"}),
             isNew |-> IncludesAny(text, {"new", "create", "add", "implement"}),
             isUpdate |-> IncludesAny(text, {"update", "change", "modify", "fix"})],
         labels |-> labels,
         titleLength |-> Len(issue.title),
         bodyLength |-> IF issue.body = NULL THEN 0 ELSE Len(issue.body.v)]

fetchClosedIssuesWithTiming(issues) ==
    LET actual == SelectSeq(issues, LAMBDA i : ~i.pull_request)
    IN  [k \in DOMAIN actual |-> closedIssueWithTiming(actual[k])]

\* historicalIssues.length < 5 is the case without enough data
SingleSourceHasEnoughData(count) == ~(count < MinSampleSize)

buildEstimationModel(historicalIssues) ==
    LET IsFeature(i) == i.isFeature
        IsBug(i) == i.isBug
        IsChore(i) == i.isChore
        IsOther(i) == ~i.isFeature /\ ~i.isBug /\ ~i.isChore
        HasApi(i) == i.complexityIndicators.hasApi
        HasDb(i) == i.complexityIndicators.hasDb
        HasAuth(i) == i.complexityIndicators.hasAuth
        Pointed(i) == Truthy(i.points)
        Days(issues) == [k \in DOMAIN issues |-> Int2Num(issues[k].cycleTimeDays)]
        baseAvg == avg(Days(historicalIssues))
        pointedIssues == SelectSeq(historicalIssues, Pointed)
    IN  IF ~SingleSourceHasEnoughData(Len(historicalIssues))
        THEN [hasEnoughData |-> FALSE, issues |-> historicalIssues]
        ELSE [hasEnoughData |-> TRUE,
              sampleSize |-> Len(historicalIssues),
              avgCycleTime |->
                 [feature |->
                    NumOr(avg(Days(SelectSeq(historicalIssues, IsFeature))), Int2Num(5)),
                  bug |-> NumOr(avg(Days(SelectSeq(historicalIssues, IsBug))), Int2Num(2)),
                  chore |->
                    NumOr(avg(Days(SelectSeq(historicalIssues, IsChore))), Int2Num(3)),
                  other |->
                    NumOr(avg(Days(SelectSeq(historicalIssues, IsOther))), Int2Num(3))],
              complexityMultipliers |->
                 [api |-> ComplexityMultiplier(Days(SelectSeq(historicalIssues, HasApi)),
                                               baseAvg, Frac(13, 10)),
                  db |-> ComplexityMultiplier(Days(SelectSeq(historicalIssues, HasDb)),
                                              baseAvg, Frac(14, 10)),
                  auth |-> ComplexityMultiplier(Days(SelectSeq(historicalIssues, HasAuth)),
                                                baseAvg, Frac(15, 10)),
                  refactor |-> Frac(15, 10),
                  newFeature |-> Frac(12, 10)],
              pointsToDays |->
                 IF Len(pointedIssues) > 3
                 THEN avg([k \in DOMAIN pointedIssues |->
                             NumDiv(Int2Num(pointedIssues[k].cycleTimeDays),
                                    Int2Num(pointedIssues[k].points.v))])
                 ELSE Int2Num(1),
              pointedIssuesCount |-> Len(pointedIssues)]

\* heuristicEstimate of githubPM.js
githubPMHeuristicEstimate(issue) ==
    LET text == ToLowerCase(issue.title \o " "
                            \o (IF issue.body = NULL THEN "" ELSE issue.body.v))
        labels == {ToLowerCase(l) : l \in Elements(issue.labels)}
        base ==
            IF (\E l \in labels : Includes(l, "bug")) \/ IncludesAny(text, {"bug", "fix"})
            THEN 2
            ELSE IF IncludesAny(text, {"new", "create", "implement", "feature"}) THEN 5
            ELSE 3
        withApi ==
            base + (IF IncludesAny(text, {"api", "integration", "external"}) THEN 2 ELSE 0)
        withDb ==
            withApi + (IF IncludesAny(text, {"database", "migration", "schema"}) THEN 2 ELSE 0)
        withAuth ==
            withDb + (IF IncludesAny(text, {"auth", "security", "permission"}) THEN 2 ELSE 0)
        withRefactor ==
            withAuth + (IF IncludesAny(text, {"refactor", "rewrite", "redesign"}) THEN 3 ELSE 0)
        points ==
            IF IncludesAny(text, {"simple", "small", "minor", "typo"})
            THEN (IF withRefactor - 2 > 1 THEN withRefactor - 2 ELSE 1)
            ELSE withRefactor
        isBugFix ==
            (\E l \in labels : Includes(l, "bug")) \/ IncludesAny(text, {"bug", "fix"})
        factors ==
            (IF isBugFix THEN <<"Bug fix (typically smaller)">>
             ELSE IF IncludesAny(text, {"new", "create", "implement", "feature"})
                  THEN <<"New feature (typically larger)">> ELSE <<>>)
            \o (IF IncludesAny(text, {"api", "integration", "external"})
                THEN <<"+2 for API/integration work">> ELSE <<>>)
            \o (IF IncludesAny(text, {"database", "migration", "schema"})
                THEN <<"+2 for database changes">> ELSE <<>>)
            \o (IF IncludesAny(text, {"auth", "security", "permission"})
                THEN <<"+2 for auth/security">> ELSE <<>>)
            \o (IF IncludesAny(text, {"refactor", "rewrite", "redesign"})
                THEN <<"+3 for refactoring">> ELSE <<>>)
            \o (IF IncludesAny(text, {"simple", "small", "minor", "typo"})
                THEN <<"-2 for simple/minor work">> ELSE <<>>)
        finalPoints == SingleSourceHeuristicRound(Int2Num(points))
    IN  [points |-> finalPoints,
         estimatedDays |-> Int2Num(finalPoints),
         confidence |-> 40,
         breakdown |-> [type |-> "Unknown", baseDays |-> NULL, complexityFactors |-> factors],
         isHeuristic |-> TRUE]

\* Mutant: the formula of the cross-org estimator, one point per sample.
SingleSourceConfidencePerSample(sampleSize) == Min95(50 + sampleSize)

\* Math.min(95, 50 + model.sampleSize * 2)
SingleSourceConfidence(sampleSize) == Min95(50 + sampleSize * 2)

estimateStoryPoints(issue, model) ==
    IF ~model.hasEnoughData THEN githubPMHeuristicEstimate(issue)
    ELSE
    LET text == ToLowerCase(issue.title \o " "
                            \o (IF issue.body = NULL THEN "" ELSE issue.body.v))
        labels == {ToLowerCase(l) : l \in Elements(issue.labels)}
        isFeature ==
            \/ labels \cap {"feature", "enhancement"} # {}
            \/ IncludesAny(text, {"new", "create", "add", "implement", "feature"})
        isBug ==
            \/ labels \cap {"bug", "fix"} # {}
            \/ IncludesAny(text, {"bug", "fix", "broken"})
        isChore == labels \cap {"chore", "maintenance"} # {}
        typeDays ==
            IF isFeature THEN model.avgCycleTime.feature
            ELSE IF isBug THEN model.avgCycleTime.bug
            ELSE IF isChore THEN model.avgCycleTime.chore
            ELSE model.avgCycleTime.other
        multiplied ==
            ApplyMultipliers(typeDays, text, model.complexityMultipliers, ComplexityTriggers)
        baseDays ==
            IF IncludesAny(text, {"refactor", "rewrite"})
            THEN NumMul(multiplied, model.complexityMultipliers.refactor) ELSE multiplied
        rawPts == NumDiv(baseDays, model.pointsToDays)
    IN  [points |-> SingleSourceRound(rawPts),
         estimatedDays |-> NumRound(baseDays),
         confidence |-> SingleSourceConfidence(model.sampleSize),
         breakdown |->
            [type |-> IF isFeature THEN "Feature" ELSE IF isBug THEN "Bug"
                      ELSE IF isChore THEN "Chore" ELSE "Task",
             baseDays |-> typeDays,
             complexityFactors |-> <<>>]]

(***************************************************************************)
(* PlatformManager.fetchAllIssues.  Every connector has a fetch in flight;  *)
(* the fetches complete in any order, each with issues or with an error.    *)
(***************************************************************************)
EmptyResults == [issues |-> <<>>, errors |-> <<>>]

\* The try block of the callback once conn.fetchIssues has resolved
pushIssues(res, issues) ==
    [res |-> [issues |-> res.issues \o issues, errors |-> res.errors],
     promise |-> "fulfilled"]

\* Mutant: the first failure discards what the other connectors delivered.
catchErrorDroppingIssues(res, conn) ==
    [res |-> [issues |-> <<>>,
              errors |-> Append(res.errors,
                                [platform |-> conn.platform, error |-> conn.message])],
     promise |-> "fulfilled"]

\* The catch block of the callback once conn.fetchIssues has rejected
catchError(res, conn) ==
    [res |-> [issues |-> res.issues,
              errors |-> Append(res.errors,
                                [platform |-> conn.platform, error |-> conn.message])],
     promise |-> "fulfilled"]

\* Promise.all: rejected as soon as one promise is rejected, fulfilled when
\* all are fulfilled, pending otherwise
PromiseAll(promises) ==
    IF \E i \in DOMAIN promises : promises[i] = "rejected" THEN "rejected"
    ELSE IF \A i \in DOMAIN promises : promises[i] = "fulfilled" THEN "fulfilled"
    ELSE "pending"

(***************************************************************************)
(* The story gap analyzer, analyzeStoryGaps of githubPM.js.                 *)
(***************************************************************************)
Gap(type, category, message, severity, suggestion) ==
    [type |-> type, category |-> category, message |-> message,
     severity |-> severity, suggestion |-> suggestion]

securityKeywords ==
    {"password", "login", "auth", "payment", "credit", "personal", "email", "phone",
     "address", "admin", "delete", "export"}

uiKeywords ==
    {"button", "form", "modal", "dialog", "menu", "dropdown", "input", "display",
     "show", "ui", "page", "screen"}

perfKeywords ==
    {"list", "search", "filter", "export", "import", "load", "fetch", "sync", "bulk",
     "batch"}

\* gaps.filter(g => g.severity === severity).length
SeverityCount(gaps, severity) ==
    Len(SelectSeq(gaps, LAMBDA g : g.severity = severity))

\* Mutant: the penalties are subtracted from 100 without the floor of 0.
GapScoreUnclamped(gaps) ==
    100 - SeverityCount(gaps, "high") * 25 - SeverityCount(gaps, "medium") * 10
        - SeverityCount(gaps, "low") * 5

\* The score field of the returned record
GapScore(gaps) ==
    LET penalised == 100 - SeverityCount(gaps, "high") * 25
                         - SeverityCount(gaps, "medium") * 10
                         - SeverityCount(gaps, "low") * 5
    IN  IF penalised > 0 THEN penalised ELSE 0

analyzeStoryGaps(issue) ==
    LET title == ToLowerCase(issue.title)
        body == ToLowerCase(IF issue.body = NULL THEN "" ELSE issue.body.v)
        labels == {ToLowerCase(issue.labels[i].name) : i \in DOMAIN issue.labels}
        fullText == title \o " " \o body
        acceptance ==
            IF /\ ~Includes(body, "acceptance criteria") /\ ~Includes(body, "- [ ]")
               /\ ~Includes(body, "given") /\ ~Includes(body, "when")
            THEN <<Gap("missing", "Acceptance Criteria", "No acceptance criteria found",
                       "high",
                       "Add clear acceptance criteria with checkboxes or Given/When/Then format")>>
            ELSE <<>>
        edgeCases ==
            IF /\ "test/edge-cases" \notin labels /\ ~Includes(body, "edge case")
               /\ ~Includes(body, "boundary")
            THEN <<Gap("coverage", "Edge Cases", "No edge cases documented", "medium",
                       "Consider: empty states, max limits, special characters, concurrent users")>>
            ELSE <<>>
        errorHandling ==
            IF /\ ~Includes(body, "error") /\ ~Includes(body, "fail")
               /\ ~Includes(body, "invalid") /\ "test/negative" \notin labels
            THEN <<Gap("coverage", "Error Handling", "No error scenarios defined", "medium",
                       "Define behavior for: invalid input, network failures, permission denied")>>
            ELSE <<>>
        needsSecurity == IncludesAny(fullText, securityKeywords)
        security ==
            IF needsSecurity /\ "test/security" \notin labels /\ ~Includes(body, "security")
            THEN <<Gap("coverage", "Security",
                       "Security-sensitive feature without security requirements", "high",
                       "Add security requirements: input validation, authorization, data protection")>>
            ELSE <<>>
        isUIFeature == IncludesAny(fullText, uiKeywords)
        accessibility ==
            IF /\ isUIFeature /\ "test/accessibility" \notin labels
               /\ ~Includes(body, "accessibility") /\ ~Includes(body, "a11y")
            THEN <<Gap("coverage", "Accessibility",
                       "UI feature without accessibility requirements", "medium",
                       "Consider: keyboard navigation, screen reader support, color contrast")>>
            ELSE <<>>
        needsPerf == IncludesAny(fullText, perfKeywords)
        performance ==
            IF /\ needsPerf /\ ~Includes(body, "performance")
               /\ ~Includes(body, "load time") /\ ~Includes(body, "pagination")
            THEN <<Gap("coverage", "Performance",
                       "Data operation without performance requirements", "low",
                       "Define: pagination limits, response time expectations, large dataset handling")>>
            ELSE <<>>
        testCases ==
            IF "has-test-cases" \notin labels
            THEN <<Gap("missing", "Test Cases", "No test cases generated", "high",
                       "Generate test cases covering happy path, edge cases, and error scenarios")>>
            ELSE <<>>
        gaps == acceptance \o edgeCases \o errorHandling \o security \o accessibility
                    \o performance \o testCases
    IN  [issueNumber |-> issue.number,
         title |-> issue.title,
         url |-> issue.html_url,
         gaps |-> gaps,
         gapCount |-> Len(gaps),
         highSeverity |-> SeverityCount(gaps, "high"),
         score |-> GapScore(gaps)]

(***************************************************************************)
(* Specification of the rounding sites.                                     *)
(***************************************************************************)
\* Raw values are the fractions n/d with |n| <= MaxNumerator, d <= MaxDenominator,
\* and the two non-finite numbers.
MaxNumerator == 50
MaxDenominator == 2

RawValues ==
    [n : -MaxNumerator .. MaxNumerator, d : 1 .. MaxDenominator] \cup {Infinity, NaN}

roundingVars == <<rawPoints, roundedPoints>>
normalizerVars == <<rawIssue, unifiedIssue>>

lexiconVars == <<lexiconText, keywordAnalysis>>
engineVars == <<historicalData, story, estimation>>

RoundingIdle == rawPoints = Idle /\ roundedPoints = Idle
NormalizerIdle == rawIssue = Idle /\ unifiedIssue = Idle
LexiconIdle == lexiconText = Idle /\ keywordAnalysis = Idle
EngineIdle == historicalData = <<>> /\ story = Idle /\ estimation = Idle
crossOrgVars == <<fetchedIssues, crossOrgModel, crossOrgRequest, crossOrgEstimate>>
singleSourceVars == <<timedIssues, estimationModel, openIssue, storyPointsEstimate>>
estimatorVars == <<crossOrgVars, singleSourceVars>>

CrossOrgIdle ==
    /\ fetchedIssues = <<>> /\ crossOrgModel = Idle
    /\ crossOrgRequest = Idle /\ crossOrgEstimate = Idle
SingleSourceIdle ==
    /\ timedIssues = <<>> /\ estimationModel = Idle
    /\ openIssue = Idle /\ storyPointsEstimate = Idle
EstimatorsIdle == CrossOrgIdle /\ SingleSourceIdle

managerVars == <<connectors, fetchOutcome, callbackPromise, results, fetchAllPc>>
gapVars == <<gapIssue, gapReport>>
cicdVars ==
    <<cicdPc, cicdPlatforms, data, loading, error, notConfigured, autoRefresh,
      loadDataCalls>>
chatVars == <<chatRequests>>
pagingVars == <<serverTotal, startAt, pagedIssues, returnedIssues, jiraPc>>
clientVars == <<chatVars, pagingVars>>
serviceVars == <<managerVars, gapVars, cicdVars, clientVars>>

ManagerIdle ==
    /\ connectors = <<>> /\ fetchOutcome = <<>> /\ callbackPromise = <<>>
    /\ results = Idle /\ fetchAllPc = "idle"
GapIdle == gapIssue = Idle /\ gapReport = Idle

CicdIdle ==
    /\ cicdPc = "idle"
    /\ cicdPlatforms = FALSE
    /\ data = NULL
    /\ loading = TRUE
    /\ error = NULL
    /\ notConfigured = FALSE
    /\ autoRefresh = TRUE
    /\ loadDataCalls = <<>>

ChatIdle == chatRequests = <<>>

PagingIdle ==
    /\ serverTotal = 0
    /\ startAt = 0
    /\ pagedIssues = <<>>
    /\ returnedIssues = <<>>
    /\ jiraPc = "idle"

ClientsIdle == ChatIdle /\ PagingIdle

ServicesIdle == ManagerIdle /\ GapIdle /\ CicdIdle /\ ClientsIdle

InitRounding ==
    /\ component = "rounding"
    /\ rawPoints \in RawValues
    /\ roundedPoints = Idle
    /\ NormalizerIdle /\ LexiconIdle /\ EngineIdle /\ EstimatorsIdle
    /\ ServicesIdle

RoundAt(site, points) ==
    /\ component = "rounding"
    /\ roundedPoints = Idle
    /\ roundedPoints' = [site |-> site, points |-> points]
    /\ UNCHANGED <<component, rawPoints, normalizerVars, lexiconVars, engineVars,
                   estimatorVars,
                   serviceVars>>

RoundEngine == RoundAt("nearestFibonacci", NearestFibonacci(rawPoints))
RoundCrossOrg == RoundAt("estimateWithCrossOrgModel", CrossOrgRound(rawPoints))
RoundCrossOrgHeuristic ==
    RoundAt("platforms.heuristicEstimate", CrossOrgHeuristicRound(rawPoints))
RoundSingleSource == RoundAt("estimateStoryPoints", SingleSourceRound(rawPoints))
RoundSingleSourceHeuristic ==
    RoundAt("githubPM.heuristicEstimate", SingleSourceHeuristicRound(rawPoints))

NextRounding ==
    \/ RoundEngine
    \/ RoundCrossOrg
    \/ RoundCrossOrgHeuristic
    \/ RoundSingleSource
    \/ RoundSingleSourceHeuristic

SpecRounding == InitRounding /\ [][NextRounding]_vars

(***************************************************************************)
(* Specification of the normalizer: a payload of one platform is drawn and  *)
(* normalizeIssue is applied to it.                                         *)
(***************************************************************************)
MaxDays == 2

\* Offsets within a day: its start, one millisecond later, noon, and the last
\* millisecond.
DayOffsets == {0, 1, MsPerDay \div 2, MsPerDay - 1}
Instants == {d * MsPerDay + o : d \in 0 .. MaxDays, o \in DayOffsets}
CreatedInstants == {0, MsPerDay \div 2}

\* <<created, closed>>: the close timestamp is absent or not before the creation
Timings ==
    {t \in CreatedInstants \X ({NULL} \cup {Some(i) : i \in Instants}) :
        t[2] = NULL \/ t[2].v >= t[1]}

Optional(S) == {NULL} \cup {Some(x) : x \in S}

GitHubLabels ==
    {<<>>, <<"bug">>, <<"feature">>, <<"chore", "SP-13">>, <<"Priority: High">>,
     <<"enhancement", "priority-low", "3 points">>, <<"Blocker">>}
GitHubTitles == {"Fix layout", "New lint rules", "Update readme", "Add dark mode"}

GitHubPayloads ==
    {[platform |-> "github", state |-> s, created_at |-> t[1], closed_at |-> t[2],
      labels |-> l, title |-> ti, body |-> NULL] :
        s \in {"open", "closed"}, t \in Timings, l \in GitHubLabels, ti \in GitHubTitles}

AdoFields ==
    {[State |-> s, CreatedDate |-> t[1], ClosedDate |-> t[2], WorkItemType |-> w,
      Priority |-> p, StoryPoints |-> sp, Title |-> Some("Harden login"),
      Description |-> NULL] :
        s \in Optional({"Done", "Resolved", "Active", "New"}), t \in Timings,
        w \in Optional({"Bug", "User Story", "Task"}), p \in Optional({1, 2, 3}),
        sp \in Optional({0, 5})}
AdoPayloads == {[platform |-> "azuredevops", fields |-> f] : f \in AdoFields}

JiraFields ==
    {[status |-> s, created |-> t[1], resolutiondate |-> t[2], issuetype |-> ty,
      priority |-> p, customfield_10016 |-> a, customfield_10026 |-> b,
      customfield_10004 |-> NULL, StoryPoints |-> c, summary |-> Some("Payment webhook"),
      description |-> Some("Retry on timeout")] :
        s \in Optional({"Done", "Resolved", "In Progress", "To Do"}), t \in Timings,
        ty \in Optional({"Bug", "Story", "Epic"}), p \in Optional({"High", "Highest"}),
        a \in Optional({0, 3}), b \in Optional({5}), c \in Optional({8})}
JiraPayloads == {[platform |-> "jira", fields |-> f] : f \in JiraFields}

InitNormalizer ==
    /\ component = "normalizer"
    /\ rawIssue \in GitHubPayloads \cup AdoPayloads \cup JiraPayloads
    /\ unifiedIssue = Idle
    /\ RoundingIdle /\ LexiconIdle /\ EngineIdle /\ EstimatorsIdle
    /\ ServicesIdle

Normalize(platform) ==
    /\ component = "normalizer"
    /\ unifiedIssue = Idle
    /\ rawIssue.platform = platform
    /\ unifiedIssue' = normalizeIssue(rawIssue, platform)
    /\ UNCHANGED <<component, rawIssue, roundingVars, lexiconVars, engineVars,
                   estimatorVars,
                   serviceVars>>

NormalizeGitHub == Normalize("github")
NormalizeAzureDevOps == Normalize("azuredevops")
NormalizeJira == Normalize("jira")

NextNormalizer == NormalizeGitHub \/ NormalizeAzureDevOps \/ NormalizeJira

SpecNormalizer == InitNormalizer /\ [][NextNormalizer]_vars

(***************************************************************************)
(* Specification of the keyword analyzer: a text is drawn and analysed.     *)
(***************************************************************************)
\* The texts are the phrases of at most MaxPhrases positions of LexiconPhrases,
\* joined by spaces.
MaxPhrases == 3

LexiconPhrases ==
    <<"refactor", "migration", "security", "feature", "implement", "update text",
      "fix", "typo", "simple", "dashboard">>

\* The subsequence of arr at the positions of the set idx, in order.
RECURSIVE Pick(_, _, _)
Pick(arr, idx, i) ==
    IF i > Len(arr) THEN <<>>
    ELSE (IF i \in idx THEN <<arr[i]>> ELSE <<>>) \o Pick(arr, idx, i + 1)

SubSequences(arr, max) ==
    {Pick(arr, idx, 1) : idx \in {s \in SUBSET DOMAIN arr : Cardinality(s) <= max}}

LexiconTexts == {Join(p) : p \in SubSequences(LexiconPhrases, MaxPhrases)}

InitLexicon ==
    /\ component = "lexicon"
    /\ lexiconText \in LexiconTexts
    /\ keywordAnalysis = Idle
    /\ RoundingIdle /\ NormalizerIdle /\ EngineIdle /\ EstimatorsIdle
    /\ ServicesIdle

AnalyzeKeywordComplexity ==
    /\ component = "lexicon"
    /\ keywordAnalysis = Idle
    /\ keywordAnalysis' = analyzeKeywordComplexity(lexiconText)
    /\ UNCHANGED <<component, lexiconText, roundingVars, normalizerVars, engineVars,
                   estimatorVars,
                   serviceVars>>

NextLexicon == AnalyzeKeywordComplexity

SpecLexicon == InitLexicon /\ [][NextLexicon]_vars

(***************************************************************************)
(* Specification of the estimation engine: historical issues are loaded and *)
(* stories are estimated, in any order.                                     *)
(***************************************************************************)
\* A history is at most MaxHistory issues of IssuePool, in pool order.
MaxHistory == 3

Issue(title, body, labels, storyPoints) ==
    [title |-> title, body |-> body, labels |-> labels, storyPoints |-> storyPoints]

IssuePool ==
    <<Issue("Export user data table", Some("Table view"), Some(<<>>), NULL),
      Issue("Sync calendar events", NULL, NULL, Some(0)),
      Issue("Export user report data", NULL, NULL, Some(8)),
      Issue("Export billing data", NULL, Some(<<[name |-> "bug"]>>), Some(1)),
      Issue("Mobile tablet desktop browser", NULL, NULL, Some(13)),
      Issue("Export user report", Some(""), Some(<<[name |-> "13 Points"]>>), Some(2)),
      Issue("Sync", NULL, Some(<<[name |-> "sp"], [name |-> "est 2 point"]>>), NULL),
      Issue("Sync calendar events across mobile tablet desktop", NULL, NULL, Some(5)),
      Issue("Fix UI", NULL, Some(<<[name |-> "bug"]>>), Some(21))>>

Histories == SubSequences(IssuePool, MaxHistory)

Story(storyText, description, labels) ==
    [storyText |-> storyText, description |-> description, labels |-> labels]

Stories ==
    {Story("Export user report data", NULL, NULL),
     Story("Refactor the distributed cache architecture", Some(""), Some(<<>>)),
     Story("Fix typo", NULL, Some(<<"documentation">>)),
     Story("Fix bug", NULL, NULL),
     Story("Sync calendar events across mobile tablet desktop browser clients offline",
           NULL, NULL),
     Story("Export", Some("billing data security integration"), Some(<<"bug">>))}

InitEngine ==
    /\ component = "engine"
    /\ historicalData = <<>>
    /\ story = Idle
    /\ estimation = Idle
    /\ RoundingIdle /\ NormalizerIdle /\ LexiconIdle /\ EstimatorsIdle
    /\ ServicesIdle

\* loadHistoricalData(issues); the result of an earlier call is no longer held
LoadHistoricalData(issues) ==
    /\ component = "engine"
    /\ historicalData' = issues
    /\ story' = Idle
    /\ estimation' = Idle
    /\ UNCHANGED <<component, roundingVars, normalizerVars, lexiconVars, estimatorVars,
                   serviceVars>>

\* estimate(storyText, description, labels)
Estimate(s) ==
    /\ component = "engine"
    /\ story' = s
    /\ estimation' = estimate(historicalData, s.storyText, s.description, s.labels)
    /\ UNCHANGED <<component, historicalData, roundingVars, normalizerVars, lexiconVars,
                   estimatorVars,
                   serviceVars>>

NextEngine ==
    \/ \E issues \in Histories : LoadHistoricalData(issues)
    \/ \E s \in Stories : Estimate(s)

SpecEngine == InitEngine /\ [][NextEngine]_vars

(***************************************************************************)
(* Specification of the cross-org estimator: the issues of the connections  *)
(* are normalized, the model is built from them, and stories are estimated  *)
(* with it.                                                                 *)
(***************************************************************************)
\* A batch is at most MaxBatch payloads of PayloadPool, in pool order.
MaxBatch == 6

GitHubPayload(state, days, labels, title, body) ==
    [platform |-> "github", state |-> state, created_at |-> 0,
     closed_at |-> IF days = NULL THEN NULL ELSE Some(days.v * MsPerDay),
     labels |-> labels, title |-> title, body |-> body]

AdoPayload(state, days, workItemType, storyPoints, title) ==
    [platform |-> "azuredevops",
     fields |-> [State |-> Some(state), CreatedDate |-> 0,
                 ClosedDate |-> IF days = NULL THEN NULL ELSE Some(days.v * MsPerDay),
                 WorkItemType |-> Some(workItemType), Priority |-> Some(2),
                 StoryPoints |-> storyPoints, Title |-> Some(title),
                 Description |-> NULL]]

JiraPayload(status, days, issuetype, storyPoints, summary, description) ==
    [platform |-> "jira",
     fields |-> [status |-> Some(status), created |-> 0,
                 resolutiondate |-> IF days = NULL THEN NULL ELSE Some(days.v * MsPerDay),
                 issuetype |-> Some(issuetype), priority |-> NULL,
                 customfield_10016 |-> storyPoints, customfield_10026 |-> NULL,
                 customfield_10004 |-> NULL, StoryPoints |-> NULL,
                 summary |-> Some(summary), description |-> description]]

PayloadPool ==
    <<GitHubPayload("closed", Some(4), <<"feature", "sp:5">>, "Add export API endpoint", NULL),
      JiraPayload("Done", Some(6), "Story", Some(8), "Payment integration",
                  Some("Schema changes")),
      GitHubPayload("closed", Some(2), <<"bug", "2">>, "Fix login redirect", Some("")),
      AdoPayload("Done", Some(1), "Bug", NULL, "Typo in footer"),
      JiraPayload("Done", Some(3), "Task", Some(3), "Database migration for audit schema",
                  NULL),
      GitHubPayload("closed", Some(0), <<"enhancement", "1 point">>, "Rename API field", NULL),
      AdoPayload("Done", NULL, "Task", Some(2), "Archive old projects"),
      GitHubPayload("open", NULL, <<>>, "New dashboard", Some("Charts")),
      AdoPayload("Resolved", Some(2), "Task", Some(1), "API keys rotation for auth service"),
      JiraPayload("Closed", Some(5), "Bug", Some(3), "Security permission check",
                  Some("Database roles"))>>

PayloadBatches == SubSequences(PayloadPool, MaxBatch)

\* Many connections that each return the same issues: the first MaxBatch
\* payloads of the pool, MaxCopies times.
MaxCopies == 10

RECURSIVE Repeat(_, _)
Repeat(seq, times) == IF times = 0 THEN <<>> ELSE seq \o Repeat(seq, times - 1)

LargePayloadBatches == {Repeat(SubSeq(PayloadPool, 1, MaxBatch), MaxCopies)}

Request(title, description, labels) ==
    [title |-> title, description |-> description, labels |-> labels]

Requests ==
    {Request("Implement payment API", "", <<>>),
     Request("Broken login", "Security fix", <<"Bug">>),
     Request("Update docs", "", <<>>),
     Request("Database schema migration", "New endpoint with auth permission", <<"story">>),
     Request("Small fix", "minor", <<>>),
     Request("Tidy", "", <<"Enhancement">>),
     Request("Fix new login endpoint", "", <<>>)}

\* The issues fetchAllIssues hands to the builder: each payload normalized
InitCrossOrg ==
    /\ component = "crossOrg"
    /\ \E batch \in PayloadBatches \cup LargePayloadBatches :
          fetchedIssues = [k \in DOMAIN batch |-> normalizeIssue(batch[k], batch[k].platform)]
    /\ crossOrgModel = Idle
    /\ crossOrgRequest = Idle
    /\ crossOrgEstimate = Idle
    /\ RoundingIdle /\ NormalizerIdle /\ LexiconIdle /\ EngineIdle /\ SingleSourceIdle
    /\ ServicesIdle

\* buildCrossOrgEstimationModel(fetchedIssues)
BuildCrossOrgEstimationModel ==
    /\ component = "crossOrg"
    /\ crossOrgModel = Idle
    /\ crossOrgModel' = buildCrossOrgEstimationModel(fetchedIssues)
    /\ UNCHANGED <<component, fetchedIssues, crossOrgRequest, crossOrgEstimate, roundingVars,
                   normalizerVars, lexiconVars, engineVars, singleSourceVars,
                   serviceVars>>

\* estimateWithCrossOrgModel(title, description, labels, model)
EstimateWithCrossOrgModel(r) ==
    /\ component = "crossOrg"
    /\ crossOrgModel # Idle
    /\ crossOrgRequest' = r
    /\ crossOrgEstimate' =
          estimateWithCrossOrgModel(r.title, r.description, r.labels, crossOrgModel)
    /\ UNCHANGED <<component, fetchedIssues, crossOrgModel, roundingVars, normalizerVars,
                   lexiconVars, engineVars, singleSourceVars,
                   serviceVars>>

NextCrossOrg ==
    \/ BuildCrossOrgEstimationModel
    \/ \E r \in Requests : EstimateWithCrossOrgModel(r)

SpecCrossOrg == InitCrossOrg /\ [][NextCrossOrg]_vars

(***************************************************************************)
(* Specification of the single-source estimator: the closed issues of one   *)
(* repository are fetched, the model is built from them, and open issues    *)
(* are estimated with it.                                                   *)
(***************************************************************************)
\* A response is at most MaxResponse issues of ClosedIssuePool, in pool order.
MaxResponse == 6

ClosedIssue(days, labels, title, body, pull_request) ==
    [created_at |-> MsPerDay \div 2, closed_at |-> MsPerDay \div 2 + days * MsPerDay,
     labels |-> labels, title |-> title, body |-> body, pull_request |-> pull_request]

ClosedIssuePool ==
    <<ClosedIssue(0, <<"feature", "sp:3">>, "Add export API", NULL, FALSE),
      ClosedIssue(0, <<"bug", "2">>, "Fix login role", Some("External auth"), FALSE),
      ClosedIssue(0, <<"chore", "1 point">>, "Rotate API keys", NULL, FALSE),
      ClosedIssue(3, <<"enhancement", "Points 5">>, "Integration with billing",
                  Some("Schema migration"), FALSE),
      ClosedIssue(2, <<"Bug", "sp 1">>, "Security fix for permission model", NULL, FALSE),
      ClosedIssue(5, <<"tech-debt">>, "Database cleanup", Some("Login table"), FALSE),
      ClosedIssue(0, <<"0 points">>, "Update readme", NULL, FALSE),
      ClosedIssue(4, <<"feature">>, "Bump dependencies", NULL, TRUE),
      ClosedIssue(0, <<"4 SP">>, "Migration of auth endpoint", NULL, FALSE)>>

Responses ==
    SubSequences(ClosedIssuePool, MaxResponse)
    \cup {Repeat(SubSeq(ClosedIssuePool, 1, MaxResponse), MaxCopies)}

OpenIssue(title, body, labels) == [title |-> title, body |-> body, labels |-> labels]

OpenIssues ==
    {OpenIssue("Add payment API", NULL, <<>>),
     OpenIssue("Broken login", Some("Security fix"), <<"Bug">>),
     OpenIssue("Update docs", NULL, <<"chore">>),
     OpenIssue("Rewrite database schema migration", Some("Endpoint with auth permission"),
               <<"enhancement">>),
     OpenIssue("Tidy", Some("minor typo"), <<>>),
     OpenIssue("Redesign settings", Some(""), <<"debugging">>)}

InitSingleSource ==
    /\ component = "singleSource"
    /\ \E response \in Responses : timedIssues = fetchClosedIssuesWithTiming(response)
    /\ estimationModel = Idle
    /\ openIssue = Idle
    /\ storyPointsEstimate = Idle
    /\ RoundingIdle /\ NormalizerIdle /\ LexiconIdle /\ EngineIdle /\ CrossOrgIdle
    /\ ServicesIdle

\* buildEstimationModel(timedIssues)
BuildEstimationModel ==
    /\ component = "singleSource"
    /\ estimationModel = Idle
    /\ estimationModel' = buildEstimationModel(timedIssues)
    /\ UNCHANGED <<component, timedIssues, openIssue, storyPointsEstimate, roundingVars,
                   normalizerVars, lexiconVars, engineVars, crossOrgVars,
                   serviceVars>>

\* estimateStoryPoints(issue, model)
EstimateStoryPoints(issue) ==
    /\ component = "singleSource"
    /\ estimationModel # Idle
    /\ openIssue' = issue
    /\ storyPointsEstimate' = estimateStoryPoints(issue, estimationModel)
    /\ UNCHANGED <<component, timedIssues, estimationModel, roundingVars,
                   normalizerVars, lexiconVars, engineVars, crossOrgVars,
                   serviceVars>>

NextSingleSource ==
    \/ BuildEstimationModel
    \/ \E issue \in OpenIssues : EstimateStoryPoints(issue)

SpecSingleSource == InitSingleSource /\ [][NextSingleSource]_vars

(***************************************************************************)
(* Specification of the estimators together: a behaviour exercises the      *)
(* estimation engine, the cross-org estimator or the single-source          *)
(* estimator.                                                               *)
(***************************************************************************)
InitEstimators == InitEngine \/ InitCrossOrg \/ InitSingleSource

NextEstimators == NextEngine \/ NextCrossOrg \/ NextSingleSource

SpecEstimators == InitEstimators /\ [][NextEstimators]_vars

(***************************************************************************)
(* Specification of PlatformManager.fetchAllIssues: the manager holds the   *)
(* connectors of the configured platforms; one call is made and the fetches *)
(* of the connectors complete in any order.                                 *)
(***************************************************************************)
\* What the fetch of a connector delivers if it succeeds, and the message of
\* the error if it fails.
Connector(platform, issues, message) ==
    [platform |-> platform, issues |-> issues, message |-> message]

ConnectorPool ==
    <<Connector("github", <<"github-1", "github-2">>, "GitHub API error: 401"),
      Connector("azuredevops", <<"ado-7">>, "Azure DevOps API error: 403"),
      Connector("jira", <<"jira-PM-3", "jira-PM-4">>, "Jira API error: 500")>>

\* The manager has a connector for each configured platform, in pool order.
ConnectorLists == SubSequences(ConnectorPool, Len(ConnectorPool))

InitManager ==
    /\ component = "manager"
    /\ connectors \in ConnectorLists
    /\ fetchOutcome = [i \in DOMAIN connectors |-> "idle"]
    /\ callbackPromise = [i \in DOMAIN connectors |-> "idle"]
    /\ results = Idle
    /\ fetchAllPc = "idle"
    /\ RoundingIdle /\ NormalizerIdle /\ LexiconIdle /\ EngineIdle /\ EstimatorsIdle
    /\ GapIdle /\ CicdIdle /\ ClientsIdle

\* fetchAllIssues up to its await: the results are empty and the callback of
\* every connector has run up to its own await of conn.fetchIssues(state)
FetchAllIssues ==
    /\ component = "manager"
    /\ fetchAllPc = "idle"
    /\ results' = EmptyResults
    /\ fetchOutcome' = [i \in DOMAIN connectors |-> "pending"]
    /\ callbackPromise' = [i \in DOMAIN connectors |-> "pending"]
    /\ fetchAllPc' = "awaiting"
    /\ UNCHANGED <<component, connectors, roundingVars, normalizerVars, lexiconVars,
                   engineVars, estimatorVars, gapVars, cicdVars, clientVars>>

\* conn.fetchIssues resolves and the callback resumes in its try block
FetchIssuesResolves(i) ==
    /\ component = "manager"
    /\ fetchAllPc = "awaiting"
    /\ fetchOutcome[i] = "pending"
    /\ LET after == pushIssues(results, connectors[i].issues)
       IN  /\ results' = after.res
           /\ callbackPromise' = [callbackPromise EXCEPT ![i] = after.promise]
    /\ fetchOutcome' = [fetchOutcome EXCEPT ![i] = "succeeded"]
    /\ UNCHANGED <<component, connectors, fetchAllPc, roundingVars, normalizerVars,
                   lexiconVars, engineVars, estimatorVars, gapVars, cicdVars,
                   clientVars>>

\* conn.fetchIssues rejects and the callback resumes in its catch block
FetchIssuesRejects(i) ==
    /\ component = "manager"
    /\ fetchAllPc = "awaiting"
    /\ fetchOutcome[i] = "pending"
    /\ LET after == catchError(results, connectors[i])
       IN  /\ results' = after.res
           /\ callbackPromise' = [callbackPromise EXCEPT ![i] = after.promise]
    /\ fetchOutcome' = [fetchOutcome EXCEPT ![i] = "failed"]
    /\ UNCHANGED <<component, connectors, fetchAllPc, roundingVars, normalizerVars,
                   lexiconVars, engineVars, estimatorVars, gapVars, cicdVars,
                   clientVars>>

\* The await of Promise.all ends: fetchAllIssues returns results, or rejects
PromiseAllSettles ==
    /\ component = "manager"
    /\ fetchAllPc = "awaiting"
    /\ PromiseAll(callbackPromise) # "pending"
    /\ fetchAllPc' = IF PromiseAll(callbackPromise) = "fulfilled" THEN "resolved"
                     ELSE "rejected"
    /\ UNCHANGED <<component, connectors, fetchOutcome, callbackPromise, results,
                   roundingVars, normalizerVars, lexiconVars, engineVars, estimatorVars,
                   gapVars, cicdVars, clientVars>>

NextManager ==
    \/ FetchAllIssues
    \/ \E i \in DOMAIN connectors : FetchIssuesResolves(i)
    \/ \E i \in DOMAIN connectors : FetchIssuesRejects(i)
    \/ PromiseAllSettles

SpecManager == InitManager /\ [][NextManager]_vars

(***************************************************************************)
(* Specification of the story gap analyzer: one open GitHub issue is        *)
(* analysed.  The body of an issue is NULL or Some(text).                   *)
(***************************************************************************)
GapTitles ==
    {"Refine wording", "Login form with search", "Export admin list", "Build report"}

GapBodies ==
    {NULL, Some(""),
     Some("Acceptance Criteria: - [ ] copy is approved"),
     Some("Given a user When the token is invalid Then the request must fail"),
     Some("Edge case: boundary values. Security and accessibility reviewed. Performance: pagination.")}

GapLabels ==
    {<<>>,
     <<[name |-> "has-test-cases"]>>,
     <<[name |-> "test/edge-cases"], [name |-> "test/negative"]>>,
     <<[name |-> "Test/Security"], [name |-> "test/accessibility"],
       [name |-> "has-test-cases"]>>}

GapIssues ==
    {[number |-> 12, title |-> t, body |-> b, labels |-> l,
      html_url |-> "https://github.com/acme/shop/issues/12"] :
        t \in GapTitles, b \in GapBodies, l \in GapLabels}

InitGaps ==
    /\ component = "gaps"
    /\ gapIssue \in GapIssues
    /\ gapReport = Idle
    /\ RoundingIdle /\ NormalizerIdle /\ LexiconIdle /\ EngineIdle /\ EstimatorsIdle
    /\ ManagerIdle /\ CicdIdle /\ ClientsIdle

AnalyzeStoryGaps ==
    /\ component = "gaps"
    /\ gapReport = Idle
    /\ gapReport' = analyzeStoryGaps(gapIssue)
    /\ UNCHANGED <<component, gapIssue, roundingVars, normalizerVars, lexiconVars,
                   engineVars, estimatorVars, managerVars, cicdVars, clientVars>>

NextGaps == AnalyzeStoryGaps

SpecGaps == InitGaps /\ [][NextGaps]_vars

(***************************************************************************)
(* Specification of the CI/CD view, the component CICDPipelines: it is      *)
(* mounted, loads the pipeline summary, and reloads it on every tick of its *)
(* 30 second interval and on every click of Refresh or Retry.  A call of    *)
(* loadData stays in flight until manager.getCICDSummary() settles.         *)
(***************************************************************************)
MaxLoads == 3

InFlight == {i \in DOMAIN loadDataCalls : loadDataCalls[i].status = "awaiting"}

\* The interval of the auto-refresh effect exists while the component is
\* mounted with autoRefresh set and notConfigured not set
IntervalSet == cicdPc = "mounted" /\ autoRefresh /\ ~notConfigured

\* What the component renders
View ==
    IF loading THEN "loading"
    ELSE IF notConfigured THEN "notConfigured"
    ELSE IF error # NULL THEN "error"
    ELSE "pipelines"

InitCicd ==
    /\ component = "cicd"
    /\ cicdPc = "unmounted"
    /\ cicdPlatforms \in BOOLEAN
    /\ data = NULL
    /\ loading = TRUE
    /\ error = NULL
    /\ notConfigured = FALSE
    /\ autoRefresh = TRUE
    /\ loadDataCalls = <<>>
    /\ RoundingIdle /\ NormalizerIdle /\ LexiconIdle /\ EngineIdle /\ EstimatorsIdle
    /\ ManagerIdle /\ GapIdle /\ ClientsIdle

\* loadData up to its await, or to its return when no CI/CD platform is
\* configured
loadData(origin) ==
    /\ Len(loadDataCalls) < MaxLoads
    /\ error' = NULL
    /\ IF ~cicdPlatforms
       THEN /\ notConfigured' = TRUE
            /\ loading' = FALSE
            /\ loadDataCalls' = Append(loadDataCalls,
                                       [origin |-> origin, status |-> "returned"])
       ELSE /\ loadDataCalls' = Append(loadDataCalls,
                                       [origin |-> origin, status |-> "awaiting"])
            /\ UNCHANGED <<notConfigured, loading>>
    /\ UNCHANGED <<component, cicdPlatforms, data, autoRefresh, roundingVars,
                   normalizerVars, lexiconVars, engineVars, estimatorVars, managerVars,
                   gapVars, clientVars>>

\* The first render and its effects: the initial load
Mount ==
    /\ component = "cicd"
    /\ cicdPc = "unmounted"
    /\ cicdPc' = "mounted"
    /\ loadData("mount")

\* The interval fires
Tick ==
    /\ component = "cicd"
    /\ IntervalSet
    /\ UNCHANGED cicdPc
    /\ loadData("tick")

\* A click of Refresh in the pipelines view
ClickRefresh ==
    /\ component = "cicd"
    /\ cicdPc = "mounted"
    /\ View = "pipelines"
    /\ UNCHANGED cicdPc
    /\ loadData("refresh")

\* A click of Retry in the error view
ClickRetry ==
    /\ component = "cicd"
    /\ cicdPc = "mounted"
    /\ View = "error"
    /\ UNCHANGED cicdPc
    /\ loadData("retry")

\* The auto-refresh checkbox of the pipelines view is toggled
ToggleAutoRefresh ==
    /\ component = "cicd"
    /\ cicdPc = "mounted"
    /\ View = "pipelines"
    /\ autoRefresh' = ~autoRefresh
    /\ UNCHANGED <<component, cicdPc, cicdPlatforms, data, loading, error, notConfigured,
                   loadDataCalls, roundingVars, normalizerVars, lexiconVars, engineVars,
                   estimatorVars, managerVars, gapVars, clientVars>>

\* getCICDSummary resolves for call i: the try block and the finally block
SummaryResolves(i) ==
    /\ component = "cicd"
    /\ i \in InFlight
    /\ data' = Some(i)
    /\ notConfigured' = FALSE
    /\ loading' = FALSE
    /\ loadDataCalls' = [loadDataCalls EXCEPT ![i].status = "loaded"]
    /\ UNCHANGED <<component, cicdPc, cicdPlatforms, error, autoRefresh, roundingVars,
                   normalizerVars, lexiconVars, engineVars, estimatorVars, managerVars,
                   gapVars, clientVars>>

\* The try block of call i throws: the catch block and the finally block
SummaryRejects(i) ==
    /\ component = "cicd"
    /\ i \in InFlight
    /\ error' = Some("Failed to load pipeline data")
    /\ loading' = FALSE
    /\ loadDataCalls' = [loadDataCalls EXCEPT ![i].status = "failed"]
    /\ UNCHANGED <<component, cicdPc, cicdPlatforms, data, notConfigured, autoRefresh,
                   roundingVars, normalizerVars, lexiconVars, engineVars, estimatorVars,
                   managerVars, gapVars, clientVars>>

NextCicd ==
    \/ Mount
    \/ Tick
    \/ ClickRefresh
    \/ ClickRetry
    \/ ToggleAutoRefresh
    \/ \E i \in DOMAIN loadDataCalls : SummaryResolves(i)
    \/ \E i \in DOMAIN loadDataCalls : SummaryRejects(i)

SpecCicd == InitCicd /\ [][NextCicd]_vars

(***************************************************************************)
(* Specification of the chat participant: one EstimationEngine is created   *)
(* at activation and every estimate request is handled with it.  A request  *)
(* waits for github.getClosedIssues when GitHub is configured, and requests *)
(* may arrive while earlier ones wait.                                      *)
(***************************************************************************)
MaxRequests == 3

\* request.prompt
ChatPrompts == {"  ", "Export user report data", "Fix typo "}

\* What github.getClosedIssues resolves with
ClosedIssueLists ==
    {<<>>, <<IssuePool[1], IssuePool[3], IssuePool[6]>>}

ChatRequest(prompt, configured, fetch, pc, estimated) ==
    [prompt |-> prompt, configured |-> configured, fetch |-> fetch, pc |-> pc,
     estimate |-> estimated]

\* activate: const estimator = new EstimationEngine()
InitChat ==
    /\ component = "chat"
    /\ historicalData = <<>>
    /\ story = Idle
    /\ estimation = Idle
    /\ chatRequests = <<>>
    /\ RoundingIdle /\ NormalizerIdle /\ LexiconIdle /\ EstimatorsIdle
    /\ ManagerIdle /\ GapIdle /\ CicdIdle /\ PagingIdle

\* String.prototype.trim, over the white space of the prompts (the space)
RECURSIVE TrimStart(_)
TrimStart(s) ==
    IF Len(s) > 0 /\ SubSeq(s, 1, 1) = " " THEN TrimStart(SubSeq(s, 2, Len(s))) ELSE s

RECURSIVE TrimEnd(_)
TrimEnd(s) ==
    IF Len(s) > 0 /\ SubSeq(s, Len(s), Len(s)) = " "
    THEN TrimEnd(SubSeq(s, 1, Len(s) - 1))
    ELSE s

Trim(storyText) == TrimEnd(TrimStart(storyText))

\* handleEstimateCommand up to its first await, or to its end when the prompt
\* is empty or GitHub is not configured
HandleEstimateCommand(prompt, configured) ==
    /\ component = "chat"
    /\ Len(chatRequests) < MaxRequests
    /\ chatRequests' =
          Append(chatRequests,
                 IF Trim(prompt) = ""
                 THEN ChatRequest(prompt, configured, "none", "asked for a story", NULL)
                 ELSE IF configured
                 THEN ChatRequest(prompt, configured, "pending", "awaiting", NULL)
                 ELSE ChatRequest(prompt, configured, "none", "estimated",
                                  Some(estimate(historicalData, prompt, NULL, NULL))))
    /\ UNCHANGED <<component, engineVars, roundingVars, normalizerVars, lexiconVars,
                   estimatorVars, managerVars, gapVars, cicdVars, pagingVars>>

\* getClosedIssues resolves for request i: learnFromHistory, then estimate
GetClosedIssuesResolves(i, closedIssues) ==
    /\ component = "chat"
    /\ chatRequests[i].pc = "awaiting"
    /\ historicalData' = closedIssues
    /\ chatRequests' =
          [chatRequests EXCEPT
             ![i].fetch = "succeeded",
             ![i].pc = "estimated",
             ![i].estimate = Some(estimate(closedIssues, chatRequests[i].prompt, NULL, NULL))]
    /\ UNCHANGED <<component, story, estimation, roundingVars, normalizerVars,
                   lexiconVars, estimatorVars, managerVars, gapVars, cicdVars, pagingVars>>

\* getClosedIssues rejects for request i: the empty catch block, then estimate
GetClosedIssuesRejects(i) ==
    /\ component = "chat"
    /\ chatRequests[i].pc = "awaiting"
    /\ chatRequests' =
          [chatRequests EXCEPT
             ![i].fetch = "failed",
             ![i].pc = "estimated",
             ![i].estimate =
                Some(estimate(historicalData, chatRequests[i].prompt, NULL, NULL))]
    /\ UNCHANGED <<component, engineVars, roundingVars, normalizerVars, lexiconVars,
                   estimatorVars, managerVars, gapVars, cicdVars, pagingVars>>

NextChat ==
    \/ \E prompt \in ChatPrompts, configured \in BOOLEAN :
          HandleEstimateCommand(prompt, configured)
    \/ \E i \in DOMAIN chatRequests, closedIssues \in ClosedIssueLists :
          GetClosedIssuesResolves(i, closedIssues)
    \/ \E i \in DOMAIN chatRequests : GetClosedIssuesRejects(i)

SpecChat == InitChat /\ [][NextChat]_vars

(***************************************************************************)
(* Specification of JiraConnector.fetchIssues: the paging loop against a    *)
(* server that holds serverTotal issues, numbered by their keys in the      *)
(* order of the search, and answers a request at startAt with the next      *)
(* issues in that order, as many as the page length it chooses.             *)
(***************************************************************************)
MaxTotal == 250

maxResults == 100

\* data.total
Totals == {0, 30, 100, 120, 180, 200, MaxTotal}

\* The page lengths a server may choose, none above maxResults
PageLengths == {20, 50, maxResults}

\* this.domain
JiraDomain == "example.atlassian.net"

\* The issue of key k as the search API returns it
ServerIssue(k) ==
    [key |-> k,
     fields |->
        [status |-> Some("Done"), created |-> 0, resolutiondate |-> Some(2),
         issuetype |-> Some("Story"), priority |-> Some("High"),
         customfield_10016 |-> Some(3), customfield_10026 |-> NULL,
         customfield_10004 |-> NULL, StoryPoints |-> NULL,
         summary |-> Some("Payment webhook"),
         description |-> Some("Retry on timeout")]]

\* data.issues of the response to a request at offset `from` when the server
\* chooses the page length len
ServerPage(from, len) ==
    LET last == IF from + len < serverTotal THEN from + len ELSE serverTotal
    IN  [n \in 1..(IF last > from THEN last - from ELSE 0) |-> ServerIssue(from + n)]

\* normalizeJiraIssue with the fields that identify the issue
normalizeFetchedJiraIssue(issue) ==
    [id |-> <<"jira-", issue.key>>,
     externalId |-> issue.key,
     url |-> <<"https://", issue._domain, "/browse/", issue.key>>]
        @@ normalizeJiraIssue(issue)

InitPaging ==
    /\ component = "paging"
    /\ serverTotal \in Totals
    /\ startAt = 0
    /\ pagedIssues = <<>>
    /\ returnedIssues = <<>>
    /\ jiraPc = "idle"
    /\ RoundingIdle /\ NormalizerIdle /\ LexiconIdle /\ EngineIdle /\ EstimatorsIdle
    /\ ManagerIdle /\ GapIdle /\ CicdIdle /\ ChatIdle

\* fetchIssues up to the first await of fetch
FetchIssues ==
    /\ component = "paging"
    /\ jiraPc = "idle"
    /\ startAt' = 0
    /\ pagedIssues' = <<>>
    /\ jiraPc' = "awaiting"
    /\ UNCHANGED <<component, serverTotal, returnedIssues, roundingVars, normalizerVars,
                   lexiconVars, engineVars, estimatorVars, managerVars, gapVars,
                   cicdVars, chatVars>>

\* One pass of the loop after a response that is ok
ResponseOk(len) ==
    /\ component = "paging"
    /\ jiraPc = "awaiting"
    /\ LET page == ServerPage(startAt, len)
           issues == [n \in DOMAIN page |->
                         [key |-> page[n].key, fields |-> page[n].fields,
                          _domain |-> JiraDomain]]
           allIssues == pagedIssues \o issues
       IN  /\ pagedIssues' = allIssues
           /\ IF startAt + Len(issues) >= serverTotal
              THEN /\ jiraPc' = "returned"
                   /\ returnedIssues' =
                         [n \in DOMAIN allIssues |-> normalizeFetchedJiraIssue(allIssues[n])]
                   /\ UNCHANGED startAt
              ELSE /\ startAt' = startAt + maxResults
                   /\ UNCHANGED <<jiraPc, returnedIssues>>
    /\ UNCHANGED <<component, serverTotal, roundingVars, normalizerVars, lexiconVars,
                   engineVars, estimatorVars, managerVars, gapVars, cicdVars, chatVars>>

\* A response that is not ok: fetchIssues throws
ResponseNotOk ==
    /\ component = "paging"
    /\ jiraPc = "awaiting"
    /\ jiraPc' = "threw"
    /\ UNCHANGED <<component, serverTotal, startAt, pagedIssues, returnedIssues,
                   roundingVars, normalizerVars, lexiconVars, engineVars, estimatorVars,
                   managerVars, gapVars, cicdVars, chatVars>>

NextPaging ==
    \/ FetchIssues
    \/ \E len \in PageLengths : ResponseOk(len)
    \/ ResponseNotOk

SpecPaging == InitPaging /\ [][NextPaging]_vars

(***************************************************************************)
(* Properties of the normalizer.                                            *)
(***************************************************************************)
\* The creation and close timestamps and the status of the payload, by platform.
RawCreated ==
    CASE rawIssue.platform = "github" -> rawIssue.created_at
      [] rawIssue.platform = "azuredevops" -> rawIssue.fields.CreatedDate
      [] rawIssue.platform = "jira" -> rawIssue.fields.created
RawClosed ==
    CASE rawIssue.platform = "github" -> rawIssue.closed_at
      [] rawIssue.platform = "azuredevops" -> rawIssue.fields.ClosedDate
      [] rawIssue.platform = "jira" -> rawIssue.fields.resolutiondate
RawStatus ==
    CASE rawIssue.platform = "github" -> Some(rawIssue.state)
      [] rawIssue.platform = "azuredevops" -> rawIssue.fields.State
      [] rawIssue.platform = "jira" -> rawIssue.fields.status
RawStatusIsClosed ==
    /\ RawStatus # NULL
    /\ ToLowerCase(RawStatus.v) \in
         (CASE rawIssue.platform = "github" -> {"closed"}
            [] rawIssue.platform = "azuredevops" ->
                 {"done", "closed", "resolved", "completed"}
            [] rawIssue.platform = "jira" -> {"done", "closed", "resolved"})

Normalized == component = "normalizer" /\ unifiedIssue # Idle

C2_CycleTimeIsCeilOfDays ==
    Normalized =>
        /\ (unifiedIssue.cycleTimeDays = NULL) <=> (RawClosed = NULL)
        /\ RawClosed # NULL =>
             LET elapsed == RawClosed.v - RawCreated
                 days == unifiedIssue.cycleTimeDays.v
             IN  /\ days * MsPerDay >= elapsed
                 /\ (days - 1) * MsPerDay < elapsed

\* C2 witness: one day and one millisecond elapsed give a cycle time of 2 days.
C2_Witness ==
    /\ Normalized
    /\ RawClosed # NULL
    /\ RawClosed.v - RawCreated = MsPerDay + 1
    /\ unifiedIssue.cycleTimeDays = Some(2)

(***************************************************************************)
(* Properties of the keyword analyzer.                                      *)
(***************************************************************************)
Analyzed == component = "lexicon" /\ keywordAnalysis # Idle

\* The number of keywords of a tier that occur in the text.
TierCount(text, keywords) ==
    Cardinality({i \in DOMAIN keywords : Includes(text, keywords[i])})

\* C6: the points of analyzeKeywordComplexity follow the decision table on the
\* counts of matched high, medium and low keywords: high >= 2 -> 13; high = 1 -> 8;
\* medium >= 2 -> 5; medium = 1 or low = 0 -> 3; low >= 2 -> 1; otherwise 2.
C6_KeywordDecisionTable ==
    Analyzed =>
        LET high == TierCount(lexiconText, COMPLEXITY_INDICATORS.high)
            medium == TierCount(lexiconText, COMPLEXITY_INDICATORS.medium)
            low == TierCount(lexiconText, COMPLEXITY_INDICATORS.low)
            points == keywordAnalysis.points
        IN  /\ high >= 2 => points = 13
            /\ high = 1 => points = 8
            /\ (high = 0 /\ medium >= 2) => points = 5
            /\ (high = 0 /\ medium = 1) => points = 3
            /\ (high = 0 /\ medium = 0 /\ low = 0) => points = 3
            /\ (high = 0 /\ medium = 0 /\ low >= 2) => points = 1
            /\ (high = 0 /\ medium = 0 /\ low = 1) => points = 2

\* C6 witness: a text with two low-tier matches and no other match got 1 point.
C6_Witness ==
    /\ Analyzed
    /\ lexiconText = "fix typo"
    /\ keywordAnalysis.matchCount = 2
    /\ keywordAnalysis.points = 1

(***************************************************************************)
(* Properties of the estimation engine.                                     *)
(***************************************************************************)
Estimated == component = "engine" /\ estimation # Idle

StoryWords == WordSet(EstimateText(story.storyText, story.description, story.labels))
HistoricalWords(i) == WordSet(IssueText(historicalData[i]))

\* a <= b for two fractions
FracLeq(a, b) == a.n * b.d <= b.n * a.d
\* a > n/d for a fraction a
FracGreater(a, n, d) == a.n * d > n * a.d

\* C7: the similarity of the story and a historical issue is the same with the
\* two word sets exchanged, lies in [0, 1], and is 0 when both sets are empty;
\* every similarity that estimate reports is such a value.
C7_JaccardSymmetric ==
    Estimated =>
        /\ \A i \in DOMAIN historicalData :
             LET sim == Jaccard(StoryWords, HistoricalWords(i))
             IN  /\ sim = Jaccard(HistoricalWords(i), StoryWords)
                 /\ IsFinite(sim) /\ 0 <= sim.n /\ sim.n <= sim.d
                 /\ (StoryWords = {} /\ HistoricalWords(i) = {}) => sim.n = 0
        /\ \A k \in DOMAIN estimation.similarIssues :
             \E i \in DOMAIN historicalData :
                /\ estimation.similarIssues[k].title = historicalData[i].title
                /\ estimation.similarIssues[k].similarity =
                      Jaccard(HistoricalWords(i), StoryWords)

\* C7 witness: a story and a historical issue without any word of more than 3
\* characters have been compared, and no similar issue is reported.
C7_Witness ==
    /\ Estimated
    /\ StoryWords = {}
    /\ \E i \in DOMAIN historicalData : HistoricalWords(i) = {}
    /\ estimation.similarIssues = <<>>

\* The positions of the historical issues whose similarity exceeds 0.1.
SimilarPositions ==
    {i \in DOMAIN historicalData :
        FracGreater(Jaccard(StoryWords, HistoricalWords(i)), 1, 10)}

\* The greatest similarity among them exceeds n/d.
TopSimilarityAbove(n, d) ==
    \E i \in SimilarPositions : FracGreater(Jaccard(StoryWords, HistoricalWords(i)), n, d)

StoryMatchCount ==
    LET text == EstimateText(story.storyText, story.description, story.labels)
    IN  TierCount(text, COMPLEXITY_INDICATORS.high)
          + TierCount(text, COMPLEXITY_INDICATORS.medium)
          + TierCount(text, COMPLEXITY_INDICATORS.low)

StrongMatch == Cardinality(SimilarPositions) >= 3 /\ TopSimilarityAbove(5, 10)
WeakMatch == ~StrongMatch /\ Cardinality(SimilarPositions) >= 1 /\ TopSimilarityAbove(3, 10)

\* C8: with at least 3 similar issues and top similarity > 0.5 the confidence is
\* 85 if the top similarity is > 0.7 and 70 otherwise; else with at least 1
\* similar issue and top similarity > 0.3 it is 60; else it is 55 if more than 2
\* keywords match and 40 otherwise.
C8_ConfidenceByBranch ==
    Estimated =>
        estimation.confidence =
            IF StrongMatch THEN (IF TopSimilarityAbove(7, 10) THEN 85 ELSE 70)
            ELSE IF WeakMatch THEN 60
            ELSE IF StoryMatchCount > 2 THEN 55 ELSE 40

\* C8 witness: a top similarity above 0.5 with only two similar issues gave a
\* confidence of 60.
C8_Witness ==
    /\ Estimated
    /\ Cardinality(SimilarPositions) = 2
    /\ TopSimilarityAbove(5, 10)
    /\ estimation.confidence = 60

\* p is the value of the Fibonacci scale nearest to n/d, the smaller one of two
\* equally near values.
IsNearestOnScale(p, n, d) ==
    /\ p \in {1, 2, 3, 5, 8, 13, 21}
    /\ \A q \in {1, 2, 3, 5, 8, 13, 21} :
          \/ Abs(p * d - n) < Abs(q * d - n)
          \/ Abs(p * d - n) = Abs(q * d - n) /\ p <= q

\* The points the keyword decision table gives the story.
StoryKeywordPoints ==
    LET text == EstimateText(story.storyText, story.description, story.labels)
        high == TierCount(text, COMPLEXITY_INDICATORS.high)
        medium == TierCount(text, COMPLEXITY_INDICATORS.medium)
        low == TierCount(text, COMPLEXITY_INDICATORS.low)
    IN  IF high >= 2 THEN 13
        ELSE IF high = 1 THEN 8
        ELSE IF medium >= 2 THEN 5
        ELSE IF medium = 1 \/ low = 0 THEN 3
        ELSE IF low >= 2 THEN 1
        ELSE 2

\* C9: the points are the nearest Fibonacci value of a third of the points of the
\* 3 most similar issues in the strong-match branch, of the mean of the most
\* similar issue's points and the keyword points in the weak-match branch, and
\* the keyword points themselves otherwise; the reported similar issues are in
\* descending order of similarity.
C9_PointsByBranch ==
    Estimated =>
        LET top == estimation.similarIssues
        IN  /\ \A k \in 1 .. (Len(top) - 1) :
                  FracLeq(top[k + 1].similarity, top[k].similarity)
            /\ Len(top) = (IF Cardinality(SimilarPositions) < 3
                           THEN Cardinality(SimilarPositions) ELSE 3)
            /\ StrongMatch =>
                  IsNearestOnScale(estimation.points,
                                   top[1].points + top[2].points + top[3].points, 3)
            /\ WeakMatch =>
                  IsNearestOnScale(estimation.points,
                                   top[1].points + StoryKeywordPoints, 2)
            /\ (~StrongMatch /\ ~WeakMatch) => estimation.points = StoryKeywordPoints

\* C9 witness: the weak-match branch blended 1 historical point and 13 keyword
\* points into 8.
C9_Witness ==
    /\ Estimated
    /\ WeakMatch
    /\ estimation.similarIssues[1].points = 1
    /\ StoryKeywordPoints = 13
    /\ estimation.points = 8

(***************************************************************************)
(* Properties of the estimators.                                            *)
(***************************************************************************)
CrossOrgBuilt == component = "crossOrg" /\ crossOrgModel # Idle
CrossOrgEstimated == component = "crossOrg" /\ crossOrgEstimate # Idle
SingleSourceBuilt == component = "singleSource" /\ estimationModel # Idle
SingleSourceEstimated == component = "singleSource" /\ storyPointsEstimate # Idle

InRange(result) == result.points \in FibonacciValues /\ result.confidence \in 0 .. 100

\* C3: every estimation path returns points on the scale {1,2,3,5,8,13,21} and
\* a confidence between 0 and 100: the estimate of the engine in each of its
\* branches, estimateWithCrossOrgModel with a trained model and with its
\* heuristic fallback, and estimateStoryPoints with a trained model and with
\* its heuristic fallback.
C3_PointsAndConfidenceInRange ==
    /\ Estimated => InRange(estimation)
    /\ CrossOrgEstimated => InRange(crossOrgEstimate)
    /\ SingleSourceEstimated => InRange(storyPointsEstimate)

\* A trained single-source model whose points-to-days ratio is 0, so that the
\* raw points divided by it are not finite, has estimated an issue.
C3_Witness ==
    /\ SingleSourceEstimated
    /\ estimationModel.hasEnoughData
    /\ estimationModel.pointsToDays = Int2Num(0)
    /\ "isHeuristic" \notin DOMAIN storyPointsEstimate
    /\ InRange(storyPointsEstimate)

\* The issues that qualify: closed, with a cycle time that is not null.
Qualifying == {k \in DOMAIN fetchedIssues :
                  fetchedIssues[k].state = "closed" /\ fetchedIssues[k].cycleTimeDays # NULL}

\* C10: buildCrossOrgEstimationModel returns hasEnoughData = false whenever
\* fewer than 5 of the input issues qualify and hasEnoughData = true whenever
\* at least 5 qualify; buildEstimationModel does the same on the length of its
\* input.
C10_EnoughDataIffFiveQualify ==
    /\ CrossOrgBuilt => (crossOrgModel.hasEnoughData <=> Cardinality(Qualifying) >= 5)
    /\ SingleSourceBuilt => (estimationModel.hasEnoughData <=> Len(timedIssues) >= 5)

\* The half of C10 that concerns too few issues, and the single-source builder.
C10_FewerThanFiveNotEnough ==
    /\ CrossOrgBuilt /\ Cardinality(Qualifying) < 5 => ~crossOrgModel.hasEnoughData
    /\ SingleSourceBuilt => (estimationModel.hasEnoughData <=> Len(timedIssues) >= 5)

\* C11: the issues buildCrossOrgEstimationModel learns from, and hence
\* sampleSize, are exactly the input issues that are closed and have a cycle
\* time that is not null; a closed issue with a cycle time of 0 counts.
C11_SampleSizeCountsQualifying ==
    CrossOrgBuilt => crossOrgModel.sampleSize = Cardinality(Qualifying)

\* The issues the builder keeps: those that pass its filter.
Learned == {k \in DOMAIN fetchedIssues : CrossOrgQualifies(fetchedIssues[k])}

CrossOrgTrained == CrossOrgBuilt /\ crossOrgModel.hasEnoughData

RECURSIVE SumDays(_)
SumDays(S) ==
    IF S = {} THEN 0
    ELSE LET k == CHOOSE k \in S : TRUE
         IN  fetchedIssues[k].cycleTimeDays.v + SumDays(S \ {k})

\* The arithmetic mean of the cycle times of the issues at the positions S
MeanDays(S) == Frac(SumDays(S), Cardinality(S))

OfType(S, type) == {k \in S : fetchedIssues[k].type = type}

\* The mean over the issues of S of the type, the fallback when there is none
MeanOrFallback(S, type, fallback) ==
    IF OfType(S, type) = {} THEN Int2Num(fallback) ELSE MeanDays(OfType(S, type))

\* C12: in a model with enough data, avgCycleTime of feature, bug and task is
\* the arithmetic mean of cycleTimeDays over the qualifying issues of that
\* type, and the fallback 5, 2 or 3 exactly when no qualifying issue has that
\* type.
C12_AvgCycleTimeIsMeanByType ==
    CrossOrgTrained =>
        /\ crossOrgModel.avgCycleTime.feature = MeanOrFallback(Qualifying, "feature", 5)
        /\ crossOrgModel.avgCycleTime.bug = MeanOrFallback(Qualifying, "bug", 2)
        /\ crossOrgModel.avgCycleTime.task = MeanOrFallback(Qualifying, "task", 3)

\* The same, over the issues that pass the filter of the builder.
C12_AvgCycleTimeIsMeanOfLearned ==
    CrossOrgTrained =>
        /\ crossOrgModel.avgCycleTime.feature = MeanOrFallback(Learned, "feature", 5)
        /\ crossOrgModel.avgCycleTime.bug = MeanOrFallback(Learned, "bug", 2)
        /\ crossOrgModel.avgCycleTime.task = MeanOrFallback(Learned, "task", 3)

SingleSourceTrained == SingleSourceBuilt /\ estimationModel.hasEnoughData

\* The positions of the fetched issues whose title and description match a trigger
Matching(S, words) ==
    {k \in S : IncludesAny(ToLowerCase(fetchedIssues[k].title \o fetchedIssues[k].description),
                           words)}

\* A number that is not NaN and not below 0
NonNegative(x) == ~IsNaN(x) /\ ~NumLess(x, Int2Num(0))

\* mean of the matching issues / mean of all issues when at least 3 match
RatioOrFallback(S, words, fallback) ==
    IF Cardinality(Matching(S, words)) >= 3
    THEN NumDiv(MeanDays(Matching(S, words)), MeanDays(S))
    ELSE fallback

RECURSIVE SumTimed(_)
SumTimed(S) ==
    IF S = {} THEN 0
    ELSE LET k == CHOOSE k \in S : TRUE
         IN  timedIssues[k].cycleTimeDays + SumTimed(S \ {k})

MeanTimed(S) == Frac(SumTimed(S), Cardinality(S))

TimedRatioOrFallback(S, fallback) ==
    IF Cardinality(S) >= 3 THEN NumDiv(MeanTimed(S), MeanTimed(DOMAIN timedIssues))
    ELSE fallback

WithIndicator(name) ==
    {k \in DOMAIN timedIssues : timedIssues[k].complexityIndicators[name]}

\* C13: each complexity multiplier (api, db, auth) of a built model is a ratio
\* that is at least 0: the mean cycle time of the qualifying issues that match
\* the trigger divided by the mean cycle time of all qualifying issues when at
\* least 3 issues match, and the fallback 1.3, 1.4 or 1.5 when fewer than 3
\* match; in the cross-org builder and in the single-source builder.
C13_MultipliersAreRatios ==
    /\ CrossOrgTrained =>
          /\ crossOrgModel.complexityMultipliers.api
                = RatioOrFallback(Qualifying, ComplexityTriggers.api, Frac(13, 10))
          /\ crossOrgModel.complexityMultipliers.db
                = RatioOrFallback(Qualifying, ComplexityTriggers.db, Frac(14, 10))
          /\ crossOrgModel.complexityMultipliers.auth
                = RatioOrFallback(Qualifying, ComplexityTriggers.auth, Frac(15, 10))
          /\ \A m \in {"api", "db", "auth"} :
                NonNegative(crossOrgModel.complexityMultipliers[m])
    /\ SingleSourceTrained =>
          /\ estimationModel.complexityMultipliers.api
                = TimedRatioOrFallback(WithIndicator("hasApi"), Frac(13, 10))
          /\ estimationModel.complexityMultipliers.db
                = TimedRatioOrFallback(WithIndicator("hasDb"), Frac(14, 10))
          /\ estimationModel.complexityMultipliers.auth
                = TimedRatioOrFallback(WithIndicator("hasAuth"), Frac(15, 10))
          /\ \A m \in {"api", "db", "auth"} :
                NonNegative(estimationModel.complexityMultipliers[m])

\* The cross-org half over the issues that pass the filter of the builder.
C13_CrossOrgRatiosOfLearned ==
    CrossOrgTrained =>
        /\ crossOrgModel.complexityMultipliers.api
              = RatioOrFallback(Learned, ComplexityTriggers.api, Frac(13, 10))
        /\ crossOrgModel.complexityMultipliers.db
              = RatioOrFallback(Learned, ComplexityTriggers.db, Frac(14, 10))
        /\ crossOrgModel.complexityMultipliers.auth
              = RatioOrFallback(Learned, ComplexityTriggers.auth, Frac(15, 10))
        /\ \A m \in {"api", "db", "auth"} :
              NonNegative(crossOrgModel.complexityMultipliers[m])

\* The single-source half: a multiplier is not a number when every fetched
\* issue has a cycle time of 0 and at least 3 issues match.
C13_SingleSourceRatios ==
    SingleSourceTrained =>
        \A m \in {"api", "db", "auth"} :
            NonNegative(estimationModel.complexityMultipliers[m])

\* cycleTimeDays / storyPoints of the fetched issue at position k
DaysPerPoint(k) ==
    NumDiv(Int2Num(fetchedIssues[k].cycleTimeDays.v), Int2Num(fetchedIssues[k].storyPoints.v))

\* The sum of the ratios of the issues at the positions of S within lo .. hi
RECURSIVE SumDaysPerPointIn(_, _, _)
SumDaysPerPointIn(S, lo, hi) ==
    IF lo > hi THEN Int2Num(0)
    ELSE IF lo = hi THEN (IF lo \in S THEN DaysPerPoint(lo) ELSE Int2Num(0))
    ELSE LET mid == (lo + hi) \div 2
         IN  NumAdd(SumDaysPerPointIn(S, lo, mid), SumDaysPerPointIn(S, mid + 1, hi))

SumDaysPerPoint(S) == SumDaysPerPointIn(S, 1, Len(fetchedIssues))

\* The mean of cycleTimeDays / storyPoints when more than 3 issues have points
PointsToDaysOf(S) ==
    IF Cardinality(S) > 3 THEN NumDiv(SumDaysPerPoint(S), Int2Num(Cardinality(S)))
    ELSE Int2Num(1)

TimedDaysPerPoint(k) ==
    NumDiv(Int2Num(timedIssues[k].cycleTimeDays), Int2Num(timedIssues[k].points.v))

RECURSIVE SumTimedDaysPerPointIn(_, _, _)
SumTimedDaysPerPointIn(S, lo, hi) ==
    IF lo > hi THEN Int2Num(0)
    ELSE IF lo = hi THEN (IF lo \in S THEN TimedDaysPerPoint(lo) ELSE Int2Num(0))
    ELSE LET mid == (lo + hi) \div 2
         IN  NumAdd(SumTimedDaysPerPointIn(S, lo, mid),
                    SumTimedDaysPerPointIn(S, mid + 1, hi))

SumTimedDaysPerPoint(S) == SumTimedDaysPerPointIn(S, 1, Len(timedIssues))

TimedPointsToDaysOf(S) ==
    IF Cardinality(S) > 3 THEN NumDiv(SumTimedDaysPerPoint(S), Int2Num(Cardinality(S)))
    ELSE Int2Num(1)

\* C14: pointsToDays of a built model is the mean of cycleTimeDays / storyPoints
\* over the qualifying issues with a known story-point value when more than 3
\* such issues exist, and exactly 1 otherwise; in the cross-org builder and in
\* the single-source builder.
C14_PointsToDaysIsMeanRatio ==
    /\ CrossOrgTrained =>
          crossOrgModel.pointsToDays
            = PointsToDaysOf({k \in Qualifying : fetchedIssues[k].storyPoints # NULL})
    /\ SingleSourceTrained =>
          estimationModel.pointsToDays
            = TimedPointsToDaysOf({k \in DOMAIN timedIssues : timedIssues[k].points # NULL})

\* The same over the issues the builders keep, a story-point value of 0 read
\* as not known.
C14_PointsToDaysOfLearned ==
    /\ CrossOrgTrained =>
          crossOrgModel.pointsToDays
            = PointsToDaysOf({k \in Learned : Truthy(fetchedIssues[k].storyPoints)})
    /\ SingleSourceTrained =>
          estimationModel.pointsToDays
            = TimedPointsToDaysOf({k \in DOMAIN timedIssues : Truthy(timedIssues[k].points)})

\* The single-source half of C14 alone.
C14_SingleSourcePointsToDays ==
    SingleSourceTrained =>
        estimationModel.pointsToDays
          = TimedPointsToDaysOf({k \in DOMAIN timedIssues : timedIssues[k].points # NULL})

CrossOrgFallback == CrossOrgEstimated /\ ~crossOrgModel.hasEnoughData

\* `${title} ${description}`.toLowerCase() of the request
RequestText == ToLowerCase(crossOrgRequest.title \o " " \o crossOrgRequest.description)

\* The score of the additive heuristic: 2 for a bug fix, else 5 for a new
\* feature, else 3; 2 more for each of API work, database work and security
\* work; 2 less, but not below 1, for simple work.
AdditiveScore(text) ==
    LET base ==
            IF IncludesAny(text, {"bug", "fix"}) THEN 2
            ELSE IF IncludesAny(text, {"new", "create", "implement", "feature"}) THEN 5
            ELSE 3
        groups == {{"api", "integration"}, {"database", "migration"}, {"auth", "security"}}
        raised == base + 2 * Cardinality({g \in groups : IncludesAny(text, g)})
    IN  IF ~IncludesAny(text, {"simple", "small", "minor"}) THEN raised
        ELSE IF raised - 2 < 1 THEN 1
        ELSE raised - 2

\* C15 as stated: without enough data, the points estimateWithCrossOrgModel
\* returns are the points the keyword decision table (analyzeKeywordComplexity)
\* gives the same text.
C15_FallbackIsKeywordTable ==
    CrossOrgFallback =>
        crossOrgEstimate.points = analyzeKeywordComplexity(RequestText).points

\* C15: without enough data, estimateWithCrossOrgModel returns the estimate of
\* its own additive heuristic: the points are the Fibonacci value nearest to
\* the additive score of the text (the smaller one on a tie), the estimated
\* days equal the points, the confidence is 40 and the result is marked as
\* heuristic.
C15_FallbackIsAdditiveHeuristic ==
    CrossOrgFallback =>
        /\ IsNearestOnScale(crossOrgEstimate.points, AdditiveScore(RequestText), 1)
        /\ crossOrgEstimate.estimatedDays = Int2Num(crossOrgEstimate.points)
        /\ crossOrgEstimate.confidence = 40
        /\ "isHeuristic" \in DOMAIN crossOrgEstimate
        /\ crossOrgEstimate.isHeuristic

\* The fallback has estimated a text to which the keyword decision table gives
\* other points.
C15_Witness ==
    /\ CrossOrgFallback
    /\ crossOrgEstimate.points # analyzeKeywordComplexity(RequestText).points
    /\ crossOrgEstimate.isHeuristic

CrossOrgTrainedEstimate == CrossOrgEstimated /\ crossOrgModel.hasEnoughData
SingleSourceTrainedEstimate == SingleSourceEstimated /\ estimationModel.hasEnoughData

\* C16: with a trained model the cross-org estimator returns the confidence
\* min(95, 50 + sampleSize) and the single-source estimator returns
\* min(95, 50 + 2 * sampleSize); a trained model has a sampleSize of at least
\* 5, so the cross-org confidence is in 55..95 and the single-source
\* confidence in 60..95.
C16_TrainedConfidence ==
    /\ CrossOrgTrainedEstimate =>
          /\ crossOrgModel.sampleSize >= 5
          /\ crossOrgEstimate.confidence
                = (IF 50 + crossOrgModel.sampleSize > 95 THEN 95
                   ELSE 50 + crossOrgModel.sampleSize)
          /\ crossOrgEstimate.confidence \in 55 .. 95
    /\ SingleSourceTrainedEstimate =>
          /\ estimationModel.sampleSize >= 5
          /\ storyPointsEstimate.confidence
                = (IF 50 + 2 * estimationModel.sampleSize > 95 THEN 95
                   ELSE 50 + 2 * estimationModel.sampleSize)
          /\ storyPointsEstimate.confidence \in 60 .. 95

\* A cross-org model trained on more than 45 issues has estimated a story: the
\* cap applies.
C16_Witness ==
    /\ CrossOrgTrainedEstimate
    /\ crossOrgModel.sampleSize > 45
    /\ crossOrgEstimate.confidence = 95

(***************************************************************************)
(* Properties of PlatformManager.fetchAllIssues.                            *)
(***************************************************************************)
Succeeded == {i \in DOMAIN connectors : fetchOutcome[i] = "succeeded"}
Failed == {i \in DOMAIN connectors : fetchOutcome[i] = "failed"}

RECURSIVE IssueCount(_)
IssueCount(S) ==
    IF S = {} THEN 0
    ELSE LET i == CHOOSE i \in S : TRUE
         IN  Len(connectors[i].issues) + IssueCount(S \ {i})

\* results.issues holds the issues of the connectors at S, each once
HoldsIssuesOf(S) ==
    /\ Elements(results.issues) = UNION {Elements(connectors[i].issues) : i \in S}
    /\ Len(results.issues) = IssueCount(S)

\* results.errors holds one {platform, error} entry for each connector at S
HoldsErrorsOf(S) ==
    /\ Len(results.errors) = Cardinality(S)
    /\ \A i \in S :
          Cardinality({k \in DOMAIN results.errors :
                          results.errors[k] = [platform |-> connectors[i].platform,
                                               error |-> connectors[i].message]}) = 1

\* C17: fetchAllIssues starts fetchIssues on every connector; whichever
\* connectors succeed or fail and in whatever order they complete, it never
\* rejects, it resolves once every connector has completed, and its issues are
\* exactly the issues of the connectors that succeeded and its errors one
\* {platform, error} entry for each connector that failed; while the call is
\* still waiting, the issues of a connector that has succeeded are never
\* removed by the failure of another.
C17_FetchAllIssuesBestEffort ==
    component = "manager" =>
        /\ fetchAllPc # "rejected"
        /\ fetchAllPc # "idle" =>
              /\ \A i \in DOMAIN connectors : fetchOutcome[i] # "idle"
              /\ HoldsIssuesOf(Succeeded)
              /\ HoldsErrorsOf(Failed)
        /\ fetchAllPc = "resolved" => Succeeded \cup Failed = DOMAIN connectors
        /\ (fetchAllPc = "awaiting" /\ Succeeded \cup Failed = DOMAIN connectors)
              => PromiseAll(callbackPromise) = "fulfilled"

\* A call has resolved in which the second of three connectors failed and the
\* third completed before the first.
C17_Witness ==
    /\ component = "manager"
    /\ fetchAllPc = "resolved"
    /\ fetchOutcome = <<"succeeded", "failed", "succeeded">>
    /\ results.issues = connectors[3].issues \o connectors[1].issues
    /\ Len(results.errors) = 1

(***************************************************************************)
(* Properties of the story gap analyzer.                                    *)
(***************************************************************************)
Analysed == component = "gaps" /\ gapReport # Idle

Reported(severity) ==
    Cardinality({i \in DOMAIN gapReport.gaps : gapReport.gaps[i].severity = severity})

Categories == {gapReport.gaps[i].category : i \in DOMAIN gapReport.gaps}

\* The issue has no body text and no labels, and its title triggers none of the
\* security, UI and data-volume keyword rules
BareIssue ==
    /\ gapIssue.body \in {NULL, Some("")}
    /\ gapIssue.labels = <<>>
    /\ ~IncludesAny(ToLowerCase(gapIssue.title),
                    securityKeywords \cup uiKeywords \cup perfKeywords)

\* C18: the score analyzeStoryGaps returns is max(0, 100 - 25*high - 10*medium
\* - 5*low) over the severities of the gaps it reports, so it lies in 0..100;
\* for an issue with an empty body and no labels whose title triggers no
\* keyword rule, exactly the gaps Acceptance Criteria, Edge Cases, Error
\* Handling and Test Cases are reported and the score is 30.
C18_GapScore ==
    Analysed =>
        /\ LET penalised == 100 - 25 * Reported("high") - 10 * Reported("medium")
                                - 5 * Reported("low")
           IN  gapReport.score = IF penalised >= 0 THEN penalised ELSE 0
        /\ gapReport.score \in 0 .. 100
        /\ \A i \in DOMAIN gapReport.gaps :
              gapReport.gaps[i].severity \in {"high", "medium", "low"}
        /\ BareIssue =>
              /\ Categories = {"Acceptance Criteria", "Edge Cases", "Error Handling",
                               "Test Cases"}
              /\ Len(gapReport.gaps) = 4
              /\ gapReport.score = 30

\* A bare issue has been analysed
C18_Witness ==
    /\ Analysed
    /\ BareIssue
    /\ gapIssue.body = NULL
    /\ gapReport.gapCount = 4
    /\ gapReport.highSeverity = 2
    /\ gapReport.score = 30

\* An issue whose penalties exceed 100 has been analysed
C18_FloorReached ==
    Analysed /\ Len(gapReport.gaps) = 7 /\ gapReport.score = 0

(***************************************************************************)
(* Properties of the enumerated fields of a normalized issue.               *)
(***************************************************************************)
Priorities == {"high", "medium", "low"}
States == {"open", "in-progress", "closed"}
Types == {"feature", "bug", "task", "chore", "epic"}

\* C19: every normalized issue, on all three platforms and for every raw
\* priority value the platform can supply, has priority in {high, medium, low},
\* state in {open, in-progress, closed} and type in {feature, bug, task, chore,
\* epic}.
C19_EnumFields ==
    Normalized =>
        /\ unifiedIssue.priority \in Priorities
        /\ unifiedIssue.state \in States
        /\ unifiedIssue.type \in Types

\* state and type are of their enumerations on every platform, and so is the
\* priority of a GitHub issue and of an Azure DevOps work item; the priority of
\* a Jira issue is the lower-cased name of its priority field, or medium.
C19_EnumFieldsButJiraPriority ==
    Normalized =>
        /\ unifiedIssue.state \in States
        /\ unifiedIssue.type \in Types
        /\ unifiedIssue.platform # "jira" => unifiedIssue.priority \in Priorities
        /\ unifiedIssue.platform = "jira" =>
              unifiedIssue.priority =
                  IF rawIssue.fields.priority \in {NULL, Some("")} THEN "medium"
                  ELSE ToLowerCase(rawIssue.fields.priority.v)

\* A Jira issue of priority Highest has been normalized
C19_JiraHighest ==
    /\ Normalized
    /\ unifiedIssue.platform = "jira"
    /\ rawIssue.fields.priority = Some("Highest")
    /\ unifiedIssue.priority = "highest"

(***************************************************************************)
(* Properties of the CI/CD view.                                            *)
(***************************************************************************)
\* C20: in the CI/CD auto-refresh loop refreshes are serialized: a timer tick
\* (or the initial load) never starts a new loadData while a previous loadData
\* is still in flight, so at most one fetch pipeline is running at any time.
C20_RefreshesSerialized ==
    component = "cicd" =>
        /\ \A i, j \in InFlight :
              i < j => loadDataCalls[j].origin \notin {"tick", "mount"}
        /\ Cardinality(InFlight) <= 1

\* Two calls of loadData are in flight, the later one started by the interval
C20_TickOverlaps ==
    /\ component = "cicd"
    /\ \E i, j \in InFlight : i < j /\ loadDataCalls[j].origin = "tick"

\* The summary on display is older than one that was already loaded
C20_OlderSummaryShown ==
    /\ component = "cicd"
    /\ \E i, j \in DOMAIN loadDataCalls :
          /\ i < j
          /\ data = Some(i)
          /\ loadDataCalls[j].status = "loaded"

\* The calls of loadData so far were started by the initial load and the
\* interval only
OnlyMountAndTicks ==
    \A i \in DOMAIN loadDataCalls : loadDataCalls[i].origin \in {"mount", "tick"}

\* C28: for any interleaving of the initial load and auto-refresh ticks, once
\* all in-flight loadData calls have completed the displayed data is the result
\* of the most recently started load: the summary of an older load is never on
\* display when a load started later has delivered its summary.
C28_NewestSummaryShown ==
    (component = "cicd" /\ InFlight = {} /\ OnlyMountAndTicks) =>
        \A i, j \in DOMAIN loadDataCalls :
            (i < j /\ loadDataCalls[j].status = "loaded") => data # Some(i)

\* Initial load and one tick, both completed: the summary of the initial load
\* is on display
C28_InitialLoadOverwritesTick ==
    /\ component = "cicd"
    /\ InFlight = {}
    /\ Len(loadDataCalls) = 2
    /\ loadDataCalls[1].origin = "mount"
    /\ loadDataCalls[2].origin = "tick"
    /\ loadDataCalls[2].status = "loaded"
    /\ data = Some(1)

\* With a single call of loadData, the data on display is the summary that
\* call delivered
C28_NewestShownWithoutOverlap ==
    (component = "cicd" /\ Len(loadDataCalls) <= 1) =>
        \A i \in DOMAIN loadDataCalls :
            loadDataCalls[i].status = "loaded" => data = Some(i)

(***************************************************************************)
(* Properties of the type of a GitHub issue.                                *)
(***************************************************************************)
GitHubNormalized == Normalized /\ unifiedIssue.platform = "github"

LowerLabels == {ToLowerCase(l) : l \in Elements(rawIssue.labels)}

\* The type the labels designate, NULL when no label is of a type vocabulary
LabelType ==
    IF LowerLabels \cap {"bug", "fix", "type/bug"} # {} THEN Some("bug")
    ELSE IF LowerLabels \cap {"feature", "enhancement", "type/feature"} # {}
    THEN Some("feature")
    ELSE IF LowerLabels \cap {"chore", "maintenance"} # {} THEN Some("chore")
    ELSE NULL

\* The type the scan of the title decides
TitleType ==
    LET title == ToLowerCase(rawIssue.title)
    IN  IF IncludesAny(title, {"bug", "fix"}) THEN "bug"
        ELSE IF IncludesAny(title, {"feature", "new"}) THEN "feature"
        ELSE "task"

\* C21: for a GitHub issue, when some label matches one of the type
\* vocabularies the type is the one that label designates; the scan of the
\* title for bug/fix or feature/new decides the type only when no label matches
\* any vocabulary (a feature label with the title "Fix layout" yields feature,
\* a chore label with the title "New lint rules" yields chore).
C21_LabelsDecideType ==
    GitHubNormalized =>
        unifiedIssue.type = IF LabelType # NULL THEN LabelType.v ELSE TitleType

\* A label of a vocabulary and a title whose scan says otherwise
C21_LabelAndTitleDisagree ==
    /\ GitHubNormalized
    /\ LabelType # NULL
    /\ LabelType.v # TitleType
    /\ TitleType # "task"

\* Without a label of a type vocabulary the type is the one the scan of the
\* title decides
C21_TitleDecidesWithoutLabel ==
    (GitHubNormalized /\ LabelType = NULL) => unifiedIssue.type = TitleType

(***************************************************************************)
(* Properties of the story points of a Jira issue.                          *)
(***************************************************************************)
JiraNormalized == Normalized /\ unifiedIssue.platform = "jira"

\* The story-point fields of the payload in the order they are tried
StoryPointFields ==
    <<rawIssue.fields.customfield_10016, rawIssue.fields.customfield_10026,
      rawIssue.fields.customfield_10004, rawIssue.fields.StoryPoints>>

NonNullFields == {k \in DOMAIN StoryPointFields : StoryPointFields[k] # NULL}

FirstNonNull ==
    IF NonNullFields = {} THEN NULL
    ELSE StoryPointFields[CHOOSE k \in NonNullFields : \A j \in NonNullFields : k <= j]

NonZeroFields == {k \in NonNullFields : StoryPointFields[k].v # 0}

FirstNonZero ==
    IF NonZeroFields = {} THEN NULL
    ELSE StoryPointFields[CHOOSE k \in NonZeroFields : \A j \in NonZeroFields : k <= j]

\* C22: for a Jira issue, storyPoints is the value of the first non-null field
\* in the order customfield_10016, customfield_10026, customfield_10004,
\* 'Story Points'; a first non-null value of 0 is returned as 0 and does not
\* fall through to a later field; storyPoints is null when all are null.
C22_FirstNonNullStoryPoints ==
    JiraNormalized => unifiedIssue.storyPoints = FirstNonNull

\* storyPoints is the first field that is neither null nor 0, and null when
\* there is none
C22_FirstNonZeroStoryPoints ==
    JiraNormalized => unifiedIssue.storyPoints = FirstNonZero

\* The first non-null field is 0 and a later field holds a value
C22_ZeroFallsThrough ==
    /\ JiraNormalized
    /\ FirstNonNull = Some(0)
    /\ unifiedIssue.storyPoints = Some(5)

(***************************************************************************)
(* Properties of the warnings and the days of EstimationEngine.estimate.    *)
(***************************************************************************)
\* The title, the description and the labels joined with single spaces
CombinedText ==
    ToLowerCase(story.storyText \o " "
                \o (IF story.description = NULL THEN "" ELSE story.description.v) \o " "
                \o (IF story.labels = NULL THEN "" ELSE Join(story.labels.v)))

Warned(warning) == warning \in Elements(estimation.warnings)

ThinWarning == "Story description is brief - consider adding more detail"
IntegrationWarning == "Integration work often takes longer than expected"
SecurityWarning == "Security features require thorough review and testing"

\* C23: in EstimationEngine.estimate the three post-hoc warnings fire
\* independently of each other and of the branch taken: the thin-description
\* warning is present exactly when the combined text is shorter than 50
\* characters, and the integration / security warning exactly when the combined
\* text contains that word and points < 5.  For the story 'Refactor the
\* distributed cache architecture' with an empty description, no labels and no
\* history the result has points 13 and the thin-description warning.
C23_WarningsIndependent ==
    Estimated =>
        /\ Warned(ThinWarning) <=> Len(CombinedText) < 50
        /\ Warned(IntegrationWarning) <=>
              (Includes(CombinedText, "integration") /\ estimation.points < 5)
        /\ Warned(SecurityWarning) <=>
              (Includes(CombinedText, "security") /\ estimation.points < 5)
        /\ (/\ story = Story("Refactor the distributed cache architecture", Some(""),
                             Some(<<>>))
            /\ historicalData = <<>>)
              => estimation.points = 13 /\ Warned(ThinWarning)

\* All three warnings are present in one result
C23_Witness ==
    /\ Estimated
    /\ Warned(ThinWarning)
    /\ Warned(IntegrationWarning)
    /\ Warned(SecurityWarning)

\* The story of the claim has been estimated without history
C23_RefactorStory ==
    /\ Estimated
    /\ story.storyText = "Refactor the distributed cache architecture"
    /\ historicalData = <<>>
    /\ estimation.points = 13
    /\ Warned(ThinWarning)

\* A story of 50 characters or more has been estimated
C23_LongStory == Estimated /\ Len(CombinedText) >= 50 /\ ~Warned(ThinWarning)

\* ceil(points * 0.75) by the table of the seven story-point values
DaysOfPoints ==
    [p \in {1, 2, 3, 5, 8, 13, 21} |->
        CASE p = 1 -> 1 [] p = 2 -> 2 [] p = 3 -> 3 [] p = 5 -> 4
          [] p = 8 -> 6 [] p = 13 -> 10 [] p = 21 -> 16]

\* C24: EstimationEngine.estimate always returns estimatedDays = ceil(points *
\* 0.75), whichever branch produced the points and whatever the historical
\* data: 1, 2, 3, 5, 8, 13, 21 points map to 1, 2, 3, 4, 6, 10, 16 days.
C24_EstimatedDaysIsCeil ==
    Estimated =>
        /\ estimation.points \in DOMAIN DaysOfPoints
        /\ estimation.estimatedDays = DaysOfPoints[estimation.points]
        /\ 4 * estimation.estimatedDays >= 3 * estimation.points
        /\ 4 * (estimation.estimatedDays - 1) < 3 * estimation.points

\* A result of the strong historical branch with 5 points and 4 days
C24_Witness ==
    /\ Estimated
    /\ StrongMatch
    /\ estimation.points = 5
    /\ estimation.estimatedDays = 4

(***************************************************************************)
(* Properties of the points of a historical issue.                          *)
(***************************************************************************)
\* The historical issues with the title of a reported similar issue
Sources(item) ==
    {i \in DOMAIN historicalData : historicalData[i].title = item.title}

\* The labels of a historical issue that match <digits> points?
PointsLabels(issue) ==
    IF issue.labels = NULL THEN {}
    ELSE {k \in DOMAIN issue.labels.v : PointsMatch(issue.labels.v[k].name) # NULL}

FirstPointsLabel(issue) ==
    PointsMatch(issue.labels.v[CHOOSE k \in PointsLabels(issue) :
                                  \A j \in PointsLabels(issue) : k <= j].name).v

\* The explicit story points when present, else the first matching label, else 3
ExplicitFirstPoints(issue) ==
    IF issue.storyPoints # NULL THEN issue.storyPoints.v
    ELSE IF PointsLabels(issue) # {} THEN FirstPointsLabel(issue)
    ELSE 3

\* The first matching label when there is one, else the explicit story points
\* when present and not 0, else 3
LabelFirstPoints(issue) ==
    IF PointsLabels(issue) # {} THEN FirstPointsLabel(issue)
    ELSE IF issue.storyPoints # NULL /\ issue.storyPoints.v # 0 THEN issue.storyPoints.v
    ELSE 3

\* C26: in findSimilarIssues the points of a historical issue are its explicit
\* storyPoints when present; only when storyPoints is absent are they the
\* number of the first label matching '<digits> points?', or 3 when no label
\* matches.
C26_ExplicitPointsFirst ==
    Estimated =>
        \A k \in DOMAIN estimation.similarIssues :
            \A i \in Sources(estimation.similarIssues[k]) :
                estimation.similarIssues[k].points = ExplicitFirstPoints(historicalData[i])

\* C26 as amended: the points of a historical issue are the number of its first
\* label matching '<digits> points?' when a label matches; only when no label
\* matches are they its explicit storyPoints when present and not 0, or 3.
C26_LabelPointsFirst ==
    Estimated =>
        \A k \in DOMAIN estimation.similarIssues :
            /\ Sources(estimation.similarIssues[k]) # {}
            /\ \A i \in Sources(estimation.similarIssues[k]) :
                  estimation.similarIssues[k].points = LabelFirstPoints(historicalData[i])

\* A similar issue is reported whose label says 13 points and whose explicit
\* story points are 2
C26_Witness ==
    /\ Estimated
    /\ \E k \in DOMAIN estimation.similarIssues :
          \E i \in Sources(estimation.similarIssues[k]) :
              /\ historicalData[i].storyPoints = Some(2)
              /\ PointsLabels(historicalData[i]) # {}
              /\ estimation.similarIssues[k].points = 13

(***************************************************************************)
(* Properties of the under-estimation warnings by branch.                   *)
(***************************************************************************)
KeywordsOnly == ~StrongMatch /\ ~WeakMatch

\* C30: whenever EstimationEngine.estimate takes the keyword-only branch (no
\* similar issue with similarity > 0.3), neither the integration nor the
\* security under-estimation warning is emitted: a text with either word has a
\* high-tier keyword and so at least 8 keyword points; the two warnings appear
\* only when the points come from historical issues.
C30_NoUnderestimationWarningOnKeywords ==
    Estimated =>
        /\ KeywordsOnly => ~Warned(IntegrationWarning) /\ ~Warned(SecurityWarning)
        /\ (KeywordsOnly /\ (Includes(CombinedText, "integration")
                             \/ Includes(CombinedText, "security")))
              => estimation.points >= 8
        /\ (Warned(IntegrationWarning) \/ Warned(SecurityWarning))
              => StrongMatch \/ WeakMatch

\* The keyword-only branch was taken on a text with both words
C30_Witness ==
    /\ Estimated
    /\ KeywordsOnly
    /\ Includes(CombinedText, "integration")
    /\ Includes(CombinedText, "security")
    /\ estimation.points = 13
    /\ ~Warned(IntegrationWarning)
    /\ ~Warned(SecurityWarning)

\* The same text gets both warnings when its points come from the history
C30_WarnedFromHistory ==
    /\ Estimated
    /\ StrongMatch \/ WeakMatch
    /\ Warned(IntegrationWarning)
    /\ Warned(SecurityWarning)

(***************************************************************************)
(* Properties of the trained cross-org estimate.                            *)
(***************************************************************************)
RequestLabels == {ToLowerCase(l) : l \in Elements(crossOrgRequest.labels)}

LooksLikeFeature ==
    \/ RequestLabels \cap {"feature", "enhancement", "story"} # {}
    \/ IncludesAny(RequestText, {"new", "create", "implement", "feature"})

LooksLikeBug ==
    \/ RequestLabels \cap {"bug", "fix"} # {}
    \/ IncludesAny(RequestText, {"bug", "fix", "broken"})

\* feature takes precedence over bug, otherwise task
ClassifiedType ==
    IF LooksLikeFeature THEN "feature" ELSE IF LooksLikeBug THEN "bug" ELSE "task"

TriggerPatterns ==
    [api |-> {"api", "endpoint", "integration"},
     db |-> {"database", "migration", "schema"},
     auth |-> {"auth", "login", "permission", "security"}]

FactorNames ==
    [api |-> "API/Integration work", db |-> "Database changes", auth |-> "Auth/Security"]

MatchedTriggers ==
    {t \in DOMAIN TriggerPatterns : IncludesAny(RequestText, TriggerPatterns[t])}

\* The multiplier of a trigger that matches, 1 for one that does not
MultiplierOf(t) ==
    IF t \in MatchedTriggers THEN crossOrgModel.complexityMultipliers[t] ELSE Int2Num(1)

\* The average days of the classified type times the multipliers of the
\* matched triggers
ResultingDays ==
    NumMul(NumMul(NumMul(crossOrgModel.avgCycleTime[ClassifiedType], MultiplierOf("api")),
                  MultiplierOf("db")),
           MultiplierOf("auth"))

\* p is a story-point value and no other is closer to raw
IsNearestFibonacci(p, raw) ==
    /\ p \in {1, 2, 3, 5, 8, 13, 21}
    /\ \A q \in {1, 2, 3, 5, 8, 13, 21} :
          Abs(raw.n - p * raw.d) <= Abs(raw.n - q * raw.d)

\* r is an integer at distance at most 1/2 from x
IsRounded(r, x) == r.d = 1 /\ 2 * Abs(x.n - r.n * x.d) <= x.d

\* C25: with a trained model, estimateWithCrossOrgModel takes as base the
\* model's average days of the classified type (feature before bug, otherwise
\* task), multiplies it by the multiplier of every trigger (api, db, auth) whose
\* pattern matches the text and by no other, records exactly one complexity
\* factor per matched trigger, and returns points = nearest Fibonacci of
\* (resulting days / pointsToDays) and estimatedDays = the resulting days
\* rounded to the nearest integer.
C25_TrainedEstimate ==
    CrossOrgTrainedEstimate =>
        /\ IsFinite(ResultingDays)
        /\ crossOrgEstimate.breakdown.type =
              (CASE ClassifiedType = "feature" -> "Feature"
                 [] ClassifiedType = "bug" -> "Bug"
                 [] ClassifiedType = "task" -> "Task")
        /\ Len(crossOrgEstimate.breakdown.complexityFactors) = Cardinality(MatchedTriggers)
        /\ Elements(crossOrgEstimate.breakdown.complexityFactors)
              = {FactorNames[t] : t \in MatchedTriggers}
        /\ IsNearestFibonacci(crossOrgEstimate.points,
                              NumDiv(ResultingDays, crossOrgModel.pointsToDays))
        /\ IsRounded(crossOrgEstimate.estimatedDays, ResultingDays)

\* A trained estimate of a request that looks like a feature and like a bug and
\* matches two triggers, one of them with a multiplier learned from the issues
C25_Witness ==
    /\ CrossOrgTrainedEstimate
    /\ ClassifiedType = "feature"
    /\ LooksLikeBug
    /\ MatchedTriggers = {"api", "auth"}
    /\ crossOrgEstimate.breakdown.complexityFactors = <<"API/Integration work", "Auth/Security">>
    /\ crossOrgModel.complexityMultipliers.api # Frac(13, 10)

\* A trained estimate of a request that matches all three triggers
C25_AllTriggers ==
    /\ CrossOrgTrainedEstimate
    /\ MatchedTriggers = {"api", "db", "auth"}
    /\ Len(crossOrgEstimate.breakdown.complexityFactors) = 3

(***************************************************************************)
(* Properties of the chat participant.                                      *)
(***************************************************************************)
\* The requests that were estimated without a successful fetch
WithoutFetch ==
    {i \in DOMAIN chatRequests :
        chatRequests[i].pc = "estimated" /\ chatRequests[i].fetch # "succeeded"}

\* C27: over any sequence of estimate requests handled by the same activated
\* participant, a request whose fetch of closed issues fails, or for which
\* GitHub is not configured, is estimated from heuristics only, that is with no
\* historical issues, also when an earlier request had loaded historical issues
\* into the shared EstimationEngine.
C27_HeuristicsOnlyWithoutFetch ==
    component = "chat" =>
        \A i \in WithoutFetch :
            /\ chatRequests[i].estimate.v = estimate(<<>>, chatRequests[i].prompt, NULL, NULL)
            /\ chatRequests[i].estimate.v.similarIssues = <<>>

\* A request whose fetch failed was estimated from the issues an earlier
\* request had loaded
C27_StaleHistoryUsed ==
    /\ component = "chat"
    /\ \E i, j \in DOMAIN chatRequests :
          /\ i < j
          /\ chatRequests[i].fetch = "succeeded"
          /\ chatRequests[j].fetch = "failed"
          /\ chatRequests[j].pc = "estimated"
          /\ chatRequests[j].estimate.v.similarIssues # <<>>

\* Before any fetch has succeeded, a request without fetch is estimated from
\* heuristics only
C27_HeuristicsOnlyBeforeFirstLoad ==
    (/\ component = "chat"
     /\ \A i \in DOMAIN chatRequests : chatRequests[i].fetch # "succeeded")
        => \A i \in WithoutFetch :
              chatRequests[i].estimate.v = estimate(<<>>, chatRequests[i].prompt, NULL, NULL)

(***************************************************************************)
(* Properties of the paging of Jira issues.                                 *)
(***************************************************************************)
\* How often the issue of key k is among the issues returned
TimesReturned(k) ==
    Cardinality({n \in DOMAIN returnedIssues : returnedIssues[n].externalId = k})

\* C29: JiraConnector.fetchIssues returns each of the `total` issues the
\* server reports exactly once, none skipped and none duplicated, for every
\* server that answers a request at startAt with the next issues in order,
\* whatever page length of at most maxResults the server chooses to return.
C29_EachIssueExactlyOnce ==
    (component = "paging" /\ jiraPc = "returned") =>
        /\ Len(returnedIssues) = serverTotal
        /\ \A k \in 1..serverTotal : TimesReturned(k) = 1

\* 120 issues on the server, a first page of 50: the issues 51 to 100 are
\* not among the 70 returned
C29_IssuesSkipped ==
    /\ component = "paging"
    /\ jiraPc = "returned"
    /\ serverTotal = 120
    /\ Len(returnedIssues) = 70
    /\ \A k \in 51..100 : TimesReturned(k) = 0

\* No issue is returned twice, and the issues are returned in the order of
\* the server
C29_NoneDuplicated ==
    (component = "paging" /\ jiraPc = "returned") =>
        \A m, n \in DOMAIN returnedIssues :
            m < n => returnedIssues[m].externalId < returnedIssues[n].externalId

\* The loop ends: the offset of a request stays below total + maxResults and
\* grows by maxResults with every request
C29_OffsetsBounded ==
    component = "paging" =>
        /\ startAt % maxResults = 0
        /\ jiraPc = "awaiting" => startAt < serverTotal + maxResults

\* A fetch that ended with its first response, from a server that holds no
\* more than maxResults issues, returned every issue once
C29_SinglePageServer ==
    (component = "paging" /\ jiraPc = "returned" /\ serverTotal <= maxResults
       /\ startAt = 0)
        => /\ Len(returnedIssues) = serverTotal
           /\ \A k \in 1..serverTotal : TimesReturned(k) = 1

(***************************************************************************)
(* Properties of the rounding sites.                                        *)
(***************************************************************************)
Rounded == component = "rounding" /\ roundedPoints # Idle

\* C4: nearestFibonacci returns a value of the Fibonacci scale and applying it
\* to its own result returns that result again.
C4_NearestFibonacciIdempotent ==
    (Rounded /\ roundedPoints.site = "nearestFibonacci") =>
        /\ roundedPoints.points \in {1, 2, 3, 5, 8, 13, 21}
        /\ NearestFibonacci(Int2Num(roundedPoints.points)) = roundedPoints.points

\* C4 witness: a value above 21 has been rounded to 21.
C4_Witness ==
    /\ Rounded
    /\ roundedPoints.site = "nearestFibonacci"
    /\ rawPoints = [n |-> 50, d |-> 2]
    /\ roundedPoints.points = 21

\* The raw value lies exactly half way between a and b.
HalfWay(raw, a, b) == IsFinite(raw) /\ 2 * raw.n = (a + b) * raw.d

\* C5: at every rounding site, a raw value equally distant from two neighbouring
\* Fibonacci values is rounded to the smaller of the two.
C5_TiesGoToSmaller ==
    Rounded =>
        \A pair \in {<<1, 2>>, <<2, 3>>, <<3, 5>>, <<5, 8>>, <<8, 13>>, <<13, 21>>} :
            HalfWay(rawPoints, pair[1], pair[2]) => roundedPoints.points = pair[1]

\* C5 witness: 6.5 has been rounded to 5 by the trained single-source estimator.
C5_Witness ==
    /\ Rounded
    /\ roundedPoints.site = "estimateStoryPoints"
    /\ rawPoints = [n |-> 13, d |-> 2]
    /\ roundedPoints.points = 5

====
